---------------------------- MODULE Spec2Model ----------------------------
(***************************************************************************)
(* Model of the pitch-deck-builder editor: the colour-palette extraction   *)
(* (src/src/utils/colorExtractor.ts, lines 1-101) and the part of the App  *)
(* component (same file, lines 208-453) that owns the reference images and *)
(* the current palette.                                                    *)
(*                                                                         *)
(* A hex colour is a sequence of one-character strings, <<"#","2","0",...>>*)
(* so that formatting (rgbToHex) and parsing (parseInt(.., 16) with shifts *)
(* and masks) are computed digit by digit, as the code computes them.      *)
(***************************************************************************)
EXTENDS Integers, Sequences, FiniteSets, TLC

(***************************************************************************)
(* Number.prototype.toString(16) and parseInt(s, 16)                       *)
(***************************************************************************)
HexDigits == <<"0","1","2","3","4","5","6","7","8","9","a","b","c","d","e","f">>

HexDigitSet == {HexDigits[i] : i \in 1..16}

\* The value of a digit taken one too high.
DigitValOneBased(ch) == CHOOSE i \in 1..16 : HexDigits[i] = ch

DigitVal(ch) == (CHOOSE i \in 1..16 : HexDigits[i] = ch) - 1

RECURSIVE NatToString16(_)
NatToString16(n) ==
    IF n < 16 THEN <<HexDigits[n + 1]>>
    ELSE NatToString16(n \div 16) \o <<HexDigits[(n % 16) + 1]>>

\* x.toString(16) of an integer x: a negative number prints as "-" and the
\* digits of its magnitude.
ToString16(x) == IF x < 0 THEN <<"-">> \o NatToString16(-x) ELSE NatToString16(x)

\* The padding digit put after the digit instead of before it.
PadHexRight(hex) == IF Len(hex) = 1 THEN hex \o <<"0">> ELSE hex

\* hex.length === 1 ? '0' + hex : hex
PadHex(hex) == IF Len(hex) = 1 THEN <<"0">> \o hex ELSE hex

\* rgbToHex without the padding of one-digit channels.
RgbToHexUnpadded(r, g, b) == <<"#">> \o ToString16(r) \o ToString16(g) \o ToString16(b)

\* rgbToHex: no clamping, each channel printed in base 16 and left-padded to
\* two characters only when it printed as one.
RgbToHex(r, g, b) ==
    <<"#">> \o PadHex(ToString16(r)) \o PadHex(ToString16(g)) \o PadHex(ToString16(b))

\* hex.replace('#', ''): the first '#' is removed, wherever it is.
RECURSIVE RemoveHash(_)
RemoveHash(s) ==
    IF s = <<>> THEN <<>>
    ELSE IF Head(s) = "#" THEN Tail(s)
    ELSE <<Head(s)>> \o RemoveHash(Tail(s))

\* The value of the longest prefix of s made of hex digits, acc being the
\* value of the digits already read: parseInt stops at the first character
\* that is no digit.
RECURSIVE ParseDigits(_, _)
ParseDigits(s, acc) ==
    IF s = <<>> \/ Head(s) \notin HexDigitSet THEN acc
    ELSE ParseDigits(Tail(s), 16 * acc + DigitVal(Head(s)))

\* parseInt(s, 16) for a string that starts with an optional sign and at
\* least one lowercase hex digit (every string this program parses is an
\* output of rgbToHex on channels in 0..255, so NaN does not arise).
ParseInt16(s) ==
    IF s # <<>> /\ Head(s) = "-" THEN 0 - ParseDigits(Tail(s), 0)
    ELSE ParseDigits(s, 0)

Min2(a, b) == IF a < b THEN a ELSE b

Max2(a, b) == IF a > b THEN a ELSE b

\* The percents in -300..300 at which the double product 2.55 * percent falls
\* just below an exact half (2.55 * 50 is 127.49999999999999), so that
\* Math.round rounds it down.
FloatBelowHalf == {50, 90, 170, 190}

\* Math.floor in the place of Math.round.
RoundAmtFloor(percent) == (255 * percent) \div 100

\* Math.round(2.55 * percent), for percent in -300..300: round half up of
\* 255 * percent / 100, one less where the double product is below the half.
RoundAmt(percent) ==
    IF percent \in FloatBelowHalf THEN ((255 * percent + 50) \div 100) - 1
    ELSE (255 * percent + 50) \div 100

\* The three channels read as getLuminance and getMostVibrant read them:
\* (rgb >> 16) & 0xff, (rgb >> 8) & 0xff, rgb & 0xff.
ChannelsOf(hex) ==
    LET rgb == ParseInt16(RemoveHash(hex))
    IN  <<(rgb \div 65536) % 256, (rgb \div 256) % 256, rgb % 256>>

\* adjustBrightness without Math.min and Math.max.
AdjustBrightnessNoClamp(hex, percent) ==
    LET num == ParseInt16(RemoveHash(hex))
        amt == RoundAmt(percent)
    IN  RgbToHex((num \div 65536) + amt, ((num \div 256) % 256) + amt, (num % 256) + amt)

\* The three channels read as adjustBrightness reads them: num >> 16 with
\* no mask, (num >> 8) & 0x00FF, num & 0x0000FF.
NumChannels(hex) ==
    LET num == ParseInt16(RemoveHash(hex))
    IN  <<num \div 65536, (num \div 256) % 256, num % 256>>

\* adjustBrightness
AdjustBrightness(hex, percent) ==
    LET c == NumChannels(hex)
        amt == RoundAmt(percent)
        R == Min2(255, Max2(0, c[1] + amt))
        G == Min2(255, Max2(0, c[2] + amt))
        B == Min2(255, Max2(0, c[3] + amt))
    IN  RgbToHex(R, G, B)

\* getLuminance with the weights of red and green exchanged.
LumKSwapped(hex) ==
    LET c == ChannelsOf(hex)
    IN  587 * c[1] + 299 * c[2] + 114 * c[3]

\* getLuminance times 255000: 299 r + 587 g + 114 b.  The code computes
\* (0.299 r + 0.587 g + 0.114 b) / 255 in double precision; two colours whose
\* exact values differ are at least 1/255000 apart, far more than the
\* rounding error, so they compare the same way; the two colours of
\* SampleColors whose exact values are equal are equal as doubles.
LumK(hex) ==
    LET c == ChannelsOf(hex)
    IN  299 * c[1] + 587 * c[2] + 114 * c[3]

(***************************************************************************)
(* extractColors: derivation of the palette from ColorThief's samples      *)
(***************************************************************************)
\* palette.map(([r, g, b]) => rgbToHex(r, g, b))
HexColorsOf(palette) == [i \in 1..Len(palette) |-> RgbToHex(palette[i][1], palette[i][2], palette[i][3])]

\* x placed in the ascending list s after every element that does not compare
\* greater: Array.prototype.sort is stable, so elements the comparator
\* getLuminance(a) - getLuminance(b) finds equal keep their order.
RECURSIVE InsertByLuminance(_, _)
InsertByLuminance(x, s) ==
    IF s = <<>> THEN <<x>>
    ELSE IF LumK(Head(s)) <= LumK(x) THEN <<Head(s)>> \o InsertByLuminance(x, Tail(s))
    ELSE <<x>> \o s

RECURSIVE SortFrom(_, _)
SortFrom(s, acc) ==
    IF s = <<>> THEN acc
    ELSE CHOOSE r \in {SortFrom(Tail(s), a) : a \in {InsertByLuminance(Head(s), acc)}} : TRUE

\* The sort with the comparator reversed.
SortByLuminanceDescending(hexColors) ==
    LET asc == SortFrom(hexColors, <<>>)
    IN  [i \in 1..Len(asc) |-> asc[Len(asc) + 1 - i]]

\* [...hexColors].sort((a, b) => getLuminance(a) - getLuminance(b))
SortByLuminance(hexColors) == CHOOSE r \in {SortFrom(h, <<>>) : h \in {hexColors}} : TRUE

\* The saturation without the test max === 0: the fraction 0 / 0 for black.
SaturationUnguarded(hex) ==
    LET c == ChannelsOf(hex)
        max == Max2(c[1], Max2(c[2], c[3]))
        min == Min2(c[1], Min2(c[2], c[3]))
    IN  <<max - min, max>>

\* The saturation of a colour as the fraction <<max - min, max>>, <<0, 1>>
\* when max is 0.  A quotient of two integers in 0..255 is rounded
\* correctly, so two saturations compare as their fractions do.
Saturation(hex) ==
    LET c == ChannelsOf(hex)
        max == Max2(c[1], Max2(c[2], c[3]))
        min == Min2(c[1], Min2(c[2], c[3]))
    IN  IF max = 0 THEN <<0, 1>> ELSE <<max - min, max>>

\* saturation > maxSaturation
SatGreater(a, b) == a[1] * b[2] > b[1] * a[2]

\* saturation >= maxSaturation
SatGreaterOrEqual(a, b) == a[1] * b[2] >= b[1] * a[2]

\* getMostVibrant's forEach from index i on, with the running maximum
\* maxSat and its colour vibrant.
RECURSIVE VibrantScan(_, _, _, _)
VibrantScan(colors, i, maxSat, vibrant) ==
    IF i > Len(colors) THEN vibrant
    ELSE IF SatGreater(Saturation(colors[i]), maxSat)
         THEN VibrantScan(colors, i + 1, Saturation(colors[i]), colors[i])
         ELSE VibrantScan(colors, i + 1, maxSat, vibrant)

\* The scan with >= for >: the last of the most saturated colours wins.
RECURSIVE VibrantScanLast(_, _, _, _)
VibrantScanLast(colors, i, maxSat, vibrant) ==
    IF i > Len(colors) THEN vibrant
    ELSE IF SatGreaterOrEqual(Saturation(colors[i]), maxSat)
         THEN VibrantScanLast(colors, i + 1, Saturation(colors[i]), colors[i])
         ELSE VibrantScanLast(colors, i + 1, maxSat, vibrant)

GetMostVibrantLast(colors) == VibrantScanLast(colors, 1, <<0, 1>>, colors[1])

\* let maxSaturation = 0; let vibrant = colors[0]; colors.forEach(...)
GetMostVibrant(colors) == VibrantScan(colors, 1, <<0, 1>>, colors[1])

\* The length check with 2 for 3.
TooFewLoose(thief) == thief.isNull \/ Len(thief.list) < 2

\* The check with < 1 for < 3.
TooFewOnlyEmpty(thief) == thief.isNull \/ Len(thief.list) < 1

\* if (!palette || palette.length < 3) throw
TooFew(thief) == thief.isNull \/ Len(thief.list) < 3

\* hexColors[1] is falsy: undefined, past the end of the list, or the empty
\* string.
SecondFalsy(hexColors) == Len(hexColors) < 2 \/ hexColors[2] = <<>>

\* hexColors[1] || adjustBrightness(primary, 20)
SecondaryOf(hexColors) ==
    IF SecondFalsy(hexColors) THEN AdjustBrightness(hexColors[1], 20) ELSE hexColors[2]

\* The derivation with hexColors itself sorted, not a copy of it.
DerivePaletteSortedInPlace(palette) ==
    LET hexColors == SortByLuminance(HexColorsOf(palette))
    IN  [primary   |-> hexColors[1],
         secondary |-> SecondaryOf(hexColors),
         accent    |-> GetMostVibrant(hexColors),
         dark      |-> AdjustBrightness(hexColors[1], -30),
         light     |-> hexColors[Len(hexColors)]]

\* The derivation with light brightened as dark is darkened.
DerivePaletteBrightLight(palette) ==
    LET hexColors == HexColorsOf(palette)
        sortedByLuminance == SortByLuminance(hexColors)
    IN  [primary   |-> hexColors[1],
         secondary |-> SecondaryOf(hexColors),
         accent    |-> GetMostVibrant(hexColors),
         dark      |-> AdjustBrightness(sortedByLuminance[1], -30),
         light     |-> AdjustBrightness(sortedByLuminance[Len(sortedByLuminance)], 30)]

\* The object extractColors resolves with, for a sample list that passed the
\* length check.  hexColors and sortedByLuminance are each bound to their
\* value (the one element of a set), as the two constants of the code are.
DerivePalette(palette) ==
    CHOOSE result \in
        {[primary   |-> hexColors[1],
          secondary |-> SecondaryOf(hexColors),
          accent    |-> GetMostVibrant(hexColors),
          dark      |-> AdjustBrightness(sortedByLuminance[1], -30),
          light     |-> sortedByLuminance[Len(sortedByLuminance)]] :
            hexColors \in {HexColorsOf(palette)},
            sortedByLuminance \in {SortByLuminance(HexColorsOf(palette))}} : TRUE

(***************************************************************************)
(* Bounds and input domains                                                *)
(***************************************************************************)
\* The longest sample list ColorThief is taken to return in the derivation
\* specification (the code asks for 6 colours).
MaxSamples == 4

\* The file reads and extractions started in one run; each takes the next
\* slot, so slots are in the order of their start.
MaxCalls == 2

\* The toasts shown at once; showToast waits for a toast to expire beyond it.
MaxToasts == 1

\* if (referenceImages.length >= 4)
MaxImages == 4

\* 10 * 1024 * 1024
MaxFileBytes == 10485760

\* The sample colours of the derivation specification: the four of the
\* spec's scenario, black and white, a colour with one-digit channels, and
\* two colours of equal luminance (587 * 31 = 299 + 114 * 157, and equal as
\* doubles too).
SampleColors ==
    { <<32, 32, 32>>, <<160, 160, 160>>, <<255, 0, 0>>, <<0, 255, 170>>,
      <<0, 0, 0>>, <<255, 255, 255>>, <<10, 5, 0>>, <<0, 31, 0>>, <<1, 0, 157>> }

SampleLists == UNION {[1..n -> SampleColors] : n \in 0..MaxSamples}

\* What colorThief.getPalette(img, 6) returns: null or a list of [r, g, b].
NullThief == [isNull |-> TRUE, list |-> <<>>]

ThiefOf(list) == [isNull |-> FALSE, list |-> list]

\* An image, reduced to what the program observes of it: whether it decodes
\* (onload or onerror) and what ColorThief samples from it.
BrokenImage == [decodes |-> FALSE, thief |-> NullThief]

ImageOf(thief) == [decodes |-> TRUE, thief |-> thief]

DeriveImages == {ImageOf(ThiefOf(l)) : l \in SampleLists} \cup {ImageOf(NullThief), BrokenImage}

ScenarioSamples == << <<32, 32, 32>>, <<160, 160, 160>>, <<255, 0, 0>>, <<0, 255, 170>> >>

ImgA == ImageOf(ThiefOf(ScenarioSamples))

ImgB == ImageOf(ThiefOf(<< <<255, 255, 255>>, <<0, 0, 0>>, <<200, 100, 50>> >>))

ImgShort == ImageOf(ThiefOf(<< <<255, 0, 0>>, <<0, 0, 0>> >>))

\* The images a user uploads in the editor specification.
EditorImages == {ImgA, ImgB, ImgShort, BrokenImage}

\* The files handed to handleImageUpload: for each image a file that passes
\* the checks, a file of another type and a file one byte over the limit.
\* (A change event with no file returns at once and changes nothing.)
Files ==
    {[isImage |-> TRUE, size |-> MaxFileBytes, img |-> i] : i \in EditorImages}
    \cup {[isImage |-> FALSE, size |-> 1, img |-> BrokenImage],
          [isImage |-> TRUE, size |-> MaxFileBytes + 1, img |-> ImgA]}

(***************************************************************************)
(* Palettes of the App component                                           *)
(***************************************************************************)
Hex(a, b, c, d, e, f) == <<"#", a, b, c, d, e, f>>

\* stylePresets.cinematic
Cinematic ==
    [primary   |-> Hex("4","a","6","f","a","5"),
     secondary |-> Hex("6","b","8","c","a","e"),
     accent    |-> Hex("d","4","a","5","7","4"),
     dark      |-> Hex("0","d","1","1","1","7"),
     light     |-> Hex("e","8","e","8","e","8")]

DefaultColors ==
    [primary   |-> Hex("6","3","6","6","f","1"),
     secondary |-> Hex("8","b","5","c","f","6"),
     accent    |-> Hex("f","5","9","e","0","b"),
     dark      |-> Hex("0","a","0","a","0","a"),
     light     |-> Hex("f","5","f","5","f","5")]

Roles == {"primary", "secondary", "accent", "dark", "light"}

\* stylePresets.bold
Bold ==
    [primary   |-> Hex("e","6","3","9","4","6"),
     secondary |-> Hex("f","4","a","2","6","1"),
     accent    |-> Hex("2","a","9","d","8","f"),
     dark      |-> Hex("1","a","1","a","2","e"),
     light     |-> Hex("f","f","f","f","f","f")]

\* stylePresets.minimal
Minimal ==
    [primary   |-> Hex("6","c","7","5","7","d"),
     secondary |-> Hex("a","d","b","5","b","d"),
     accent    |-> Hex("2","1","2","5","2","9"),
     dark      |-> Hex("f","8","f","9","f","a"),
     light     |-> Hex("2","1","2","5","2","9")]

\* stylePresets.noir
Noir ==
    [primary   |-> Hex("2","d","2","d","2","d"),
     secondary |-> Hex("4","a","4","a","4","a"),
     accent    |-> Hex("c","9","a","2","2","7"),
     dark      |-> Hex("0","a","0","a","0","a"),
     light     |-> Hex("d","4","d","4","d","4")]

\* stylePresets.neon
Neon ==
    [primary   |-> Hex("0","0","d","4","f","f"),
     secondary |-> Hex("f","f","0","0","f","f"),
     accent    |-> Hex("3","9","f","f","1","4"),
     dark      |-> Hex("0","a","0","0","1","4"),
     light     |-> Hex("f","f","f","f","f","f")]

StylePresets ==
    [cinematic |-> Cinematic, bold |-> Bold, minimal |-> Minimal,
     noir |-> Noir, neon |-> Neon]

StyleVariants == {"cinematic", "bold", "minimal", "noir", "neon"}

(***************************************************************************)
(* Blocks of the App component                                             *)
(***************************************************************************)
BlockIds == <<"1", "2", "3", "4", "5", "6", "7", "8", "9", "10">>

BlockTypes ==
    <<"hero", "logline", "story", "world", "character", "tone", "motif",
      "theme", "stakes", "closing">>

BlockTitles ==
    <<"PROJECT TITLE", "LOGLINE", "STORY", "WORLD & CONCEPT", "CHARACTER",
      "TONE & STYLE", "VISUAL MOTIFS", "THEMES", "STAKES", "CLOSING">>

\* initialBlocks; the content of a block is kept as the words it opens with.
InitialBlocks ==
    [i \in 1..10 |->
        [id |-> BlockIds[i], type |-> BlockTypes[i], title |-> BlockTitles[i],
         content |-> <<"A CINEMATIC EXPERIENCE", "When an ordinary world",
                       "In a world where", "The rules are simple", "ALEX, 30s",
                       "Atmospheric and immersive", "Reflections and mirrors",
                       "What does it mean", "If they fail",
                       "In the end">>[i],
         layout |-> "A", visible |-> TRUE]]

\* useState<string | null>(null) of draggedBlock and dragOverBlock
NoBlock == "null"

(***************************************************************************)
(* State                                                                   *)
(***************************************************************************)
VARIABLES
    referenceImages,   \* useState<string[]>([]): the images, as a sequence
    activeImageIndex,  \* useState<number>(0), 0-based
    colors,            \* useState<ColorPalette>: the current palette
    isLoading,         \* useState(false)
    toasts,            \* useState<Toast[]>([]): [message, type] in order
    tasks,             \* per slot: a file read or an extractColors promise
    lastSettled,       \* history: the slot whose promise settled last, or 0
    blocks,            \* useState<BlockData[]>(initialBlocks)
    draggedBlock,      \* useState<string | null>(null)
    dragOverBlock,     \* useState<string | null>(null)
    styleVariant,      \* useState<StyleVariant>('cinematic')
    hasUnsavedChanges, \* useState(false)
    storage,           \* localStorage[STORAGE_KEY]: <<>> or <<session>>
    saveTimers,        \* the pending setTimeout(saveState, 1000), oldest first
    storageFull,       \* environment: localStorage.setItem throws
    mounted,           \* the effects of the first render have run
    previewMode,       \* useState<PreviewMode>('html')
    isExporting,       \* useState(false)
    exportTask,        \* the call of exportToPDF or exportToImage under way
    mathCall           \* a call of a colour function on its own

editorVars ==
    <<referenceImages, activeImageIndex, colors, isLoading, toasts, tasks, lastSettled>>

deckVars == <<blocks, draggedBlock, dragOverBlock, styleVariant>>

saveVars == <<hasUnsavedChanges, storage, saveTimers, storageFull, mounted>>

exportVars == <<previewMode, isExporting, exportTask>>

vars ==
    <<referenceImages, activeImageIndex, colors, isLoading, toasts, tasks,
      lastSettled, deckVars, saveVars, mathCall, exportVars>>

(***************************************************************************)
(* App: the auto-save effect                                               *)
(***************************************************************************)
\* const state = { blocks, colors, styleVariant, referenceImages }: the
\* values of the render, which are the effect's dependencies and what
\* saveState of that render writes.
Session ==
    [blocks |-> blocks, colors |-> colors, styleVariant |-> styleVariant,
     referenceImages |-> referenceImages]

\* A cleanup that clears nothing.
KeepTimeout(timers) == timers

\* The effect's cleanup, return () => clearTimeout(timeoutId): the timer of
\* the effect's last run is cleared, fired or not.
ClearTimeout(timers) == <<>>

\* The effect, run after a render in which one of blocks, colors,
\* styleVariant, referenceImages is a new value: the cleanup of the last run,
\* then setTimeout(saveState, 1000) and setHasUnsavedChanges(true).
\* The values of the next render are those the handler has set.
AutoSaveEffect ==
    /\ saveTimers' = Append(ClearTimeout(saveTimers), Session')
    /\ hasUnsavedChanges' = TRUE
    /\ UNCHANGED <<storageFull, mounted>>

Slots == 1..MaxCalls

\* pc: "free", "reading" (FileReader.readAsDataURL under way), "readfailed"
\* (reader.onerror ran), "loading" (img.src set, the promise pending),
\* "resolved", "rejected".
\* kind: "upload" (handleImageUpload), "extract" (extractColorsFromImage),
\* "direct" (extractColors called on its own).
\* base: the referenceImages the upload handler closed over.
\* value: <<>> or <<palette>>, the value the promise resolved with.
FreeTask ==
    [pc |-> "free", kind |-> "none", img |-> BrokenImage, base |-> <<>>,
     value |-> <<>>, error |-> ""]

InFlight(t) == t.pc \in {"reading", "loading"}

HasSlot == \E r \in Slots : tasks[r].pc = "free"

\* The slot a new task takes: the lowest free one.
NextSlot == CHOOSE r \in Slots : tasks[r].pc = "free" /\ \A q \in Slots : q < r => tasks[q].pc # "free"

(***************************************************************************)
(* extractColors: the promise                                              *)
(***************************************************************************)
\* img.onload: throw inside the try (caught, reject(error)) when ColorThief
\* gave too few colours, resolve with the derived palette otherwise.
SettleOnload(t) ==
    IF TooFew(t.img.thief)
    THEN [t EXCEPT !.pc = "rejected", !.error = "Could not extract enough colors"]
    ELSE [t EXCEPT !.pc = "resolved", !.value = <<DerivePalette(t.img.thief.list)>>]

\* img.onerror setting img.src again instead of rejecting.
SettleOnerrorRetry(t) == [t EXCEPT !.pc = "loading"]

\* img.onerror: reject(new Error('Failed to load image'))
SettleOnerror(t) == [t EXCEPT !.pc = "rejected", !.error = "Failed to load image"]

(***************************************************************************)
(* App: toasts                                                             *)
(***************************************************************************)
Toast(message, type) == [message |-> message, type |-> type]

CanToast == Len(toasts) < MaxToasts

\* showToast: setToasts(prev => [...prev, {id, message, type}])
ShowToast(message, type) == toasts' = Append(toasts, Toast(message, type))

\* The timer showToast sets: after 3000 ms the toast is filtered out.  All
\* timers have the same delay, so the oldest toast goes first.
ToastExpire ==
    /\ toasts # <<>>
    /\ toasts' = Tail(toasts)
    /\ UNCHANGED <<referenceImages, activeImageIndex, colors, isLoading, tasks, lastSettled>>
    /\ UNCHANGED <<deckVars, saveVars, mathCall, exportVars>>

(***************************************************************************)
(* App: what follows `await extractColors(imageUrl)` in the two callers    *)
(***************************************************************************)
\* The catch branch falling back to the default palette.
ColorsAfterOrDefault(t) == IF t.pc = "resolved" THEN t.value[1] ELSE DefaultColors

\* The palette set only when no other request has resolved before.
ColorsAfterFirstWins(t) ==
    IF t.pc = "resolved" /\ \A q \in Slots : tasks[q].pc # "resolved"
    THEN t.value[1] ELSE colors

\* try { setColors(extractedColors) } catch { } : the palette after the
\* promise of the settled task t has been awaited.
ColorsAfter(t) == IF t.pc = "resolved" THEN t.value[1] ELSE colors

\* The toast of the try or of the catch branch.
ToastAfter(t) ==
    IF t.kind = "upload"
    THEN IF t.pc = "resolved"
         THEN Toast("Image added & colors extracted", "success")
         ELSE Toast("Image added but could not extract colors", "error")
    ELSE IF t.pc = "resolved"
         THEN Toast("Colors extracted", "success")
         ELSE Toast("Could not extract colors", "error")

\* The caller's continuation, run as the promise settles to t: try or catch,
\* then finally { setIsLoading(false) }.  A direct call has no caller state.
Continue(t) ==
    IF t.kind = "direct"
    THEN UNCHANGED <<colors, isLoading, toasts, saveVars>>
    ELSE /\ colors' = ColorsAfter(t)
         /\ toasts' = Append(toasts, ToastAfter(t))
         /\ isLoading' = FALSE
         /\ IF t.pc = "resolved"
            THEN AutoSaveEffect /\ UNCHANGED storage
            ELSE UNCHANGED saveVars

ImgOnload(r) ==
    /\ tasks[r].pc = "loading"
    /\ tasks[r].img.decodes
    /\ tasks[r].kind # "direct" => CanToast
    /\ tasks' = [tasks EXCEPT ![r] = SettleOnload(@)]
    /\ lastSettled' = r
    /\ UNCHANGED <<referenceImages, activeImageIndex>>
    /\ UNCHANGED <<deckVars, mathCall, exportVars>>
    /\ Continue(SettleOnload(tasks[r]))

ImgOnerror(r) ==
    /\ tasks[r].pc = "loading"
    /\ ~tasks[r].img.decodes
    /\ tasks[r].kind # "direct" => CanToast
    /\ tasks' = [tasks EXCEPT ![r] = SettleOnerror(@)]
    /\ lastSettled' = r
    /\ UNCHANGED <<referenceImages, activeImageIndex>>
    /\ UNCHANGED <<deckVars, mathCall, exportVars>>
    /\ Continue(SettleOnerror(tasks[r]))

(***************************************************************************)
(* App: handleImageUpload                                                  *)
(***************************************************************************)
\* The first check with > for >=.
UploadRefusalAboveMax(file) ==
    IF Len(referenceImages) > MaxImages THEN "Maximum 4 images allowed"
    ELSE IF ~file.isImage THEN "Please upload a valid image file"
    ELSE IF file.size > MaxFileBytes THEN "Image too large (max 10MB)"
    ELSE ""

\* The checks without the one of file.type.
UploadRefusalNoTypeCheck(file) ==
    IF Len(referenceImages) >= MaxImages THEN "Maximum 4 images allowed"
    ELSE IF file.size > MaxFileBytes THEN "Image too large (max 10MB)"
    ELSE ""

\* The three checks that end the handler with an error toast.
UploadRefusal(file) ==
    IF Len(referenceImages) >= MaxImages THEN "Maximum 4 images allowed"
    ELSE IF ~file.isImage THEN "Please upload a valid image file"
    ELSE IF file.size > MaxFileBytes THEN "Image too large (max 10MB)"
    ELSE ""

\* const file = e.target.files?.[0]; if (!file) return;
HandleImageUploadNoFile == UNCHANGED vars

HandleImageUploadRefused(file) ==
    /\ UploadRefusal(file) # ""
    /\ CanToast
    /\ ShowToast(UploadRefusal(file), "error")
    /\ UNCHANGED <<referenceImages, activeImageIndex, colors, isLoading, tasks, lastSettled>>
    /\ UNCHANGED <<deckVars, saveVars, mathCall, exportVars>>

\* setIsLoading(true); reader.readAsDataURL(file): the read is under way and
\* its onload closes over the handler's referenceImages.
HandleImageUploadStart(file) ==
    /\ UploadRefusal(file) = ""
    /\ HasSlot
    /\ isLoading' = TRUE
    /\ tasks' = [tasks EXCEPT ![NextSlot] =
                    [FreeTask EXCEPT !.pc = "reading", !.kind = "upload",
                                     !.img = file.img, !.base = referenceImages]]
    /\ UNCHANGED <<referenceImages, activeImageIndex, colors, toasts, lastSettled>>
    /\ UNCHANGED <<deckVars, saveVars, mathCall, exportVars>>

\* reader.onload up to the await: the image is appended to the list the
\* handler closed over and made active, and extractColors is called.  The
\* list closed over is not read again.
ReaderOnload(r) ==
    /\ tasks[r].pc = "reading"
    /\ LET newImages == Append(tasks[r].base, tasks[r].img)
       IN  /\ referenceImages' = newImages
           /\ activeImageIndex' = Len(newImages) - 1
    /\ tasks' = [tasks EXCEPT ![r].pc = "loading", ![r].base = <<>>]
    /\ UNCHANGED <<colors, isLoading, toasts, lastSettled>>
    /\ UNCHANGED <<deckVars, storage, mathCall, exportVars>>
    /\ AutoSaveEffect

\* reader.onerror
ReaderOnerror(r) ==
    /\ tasks[r].pc = "reading"
    /\ CanToast
    /\ isLoading' = FALSE
    /\ ShowToast("Failed to read image file", "error")
    /\ tasks' = [tasks EXCEPT ![r].pc = "readfailed", ![r].base = <<>>]
    /\ UNCHANGED <<referenceImages, activeImageIndex, colors, lastSettled>>
    /\ UNCHANGED <<deckVars, saveVars, mathCall, exportVars>>

(***************************************************************************)
(* App: removeImage, extractColorsFromImage, resetToDefaults               *)
(***************************************************************************)
RemoveAt(s, i) == [k \in 1..(Len(s) - 1) |-> IF k < i THEN s[k] ELSE s[k + 1]]

\* removeImage(index), index 0-based, from the button of an image shown.
RemoveImage(index) ==
    /\ index + 1 \in DOMAIN referenceImages
    /\ CanToast
    /\ LET newImages == RemoveAt(referenceImages, index + 1)
       IN  /\ referenceImages' = newImages
           /\ activeImageIndex' =
                 IF activeImageIndex >= Len(newImages)
                 THEN Max2(0, Len(newImages) - 1)
                 ELSE activeImageIndex
    /\ ShowToast("Image removed", "info")
    /\ UNCHANGED <<colors, isLoading, tasks, lastSettled>>
    /\ UNCHANGED <<deckVars, storage, mathCall, exportVars>>
    /\ AutoSaveEffect

\* extractColorsFromImage(index) up to the await; with no image at index
\* the handler returns at once.
ExtractColorsFromImage(index) ==
    /\ index + 1 \in DOMAIN referenceImages
    /\ HasSlot
    /\ isLoading' = TRUE
    /\ tasks' = [tasks EXCEPT ![NextSlot] =
                    [FreeTask EXCEPT !.pc = "loading", !.kind = "extract",
                                     !.img = referenceImages[index + 1]]]
    /\ UNCHANGED <<referenceImages, activeImageIndex, colors, toasts, lastSettled>>
    /\ UNCHANGED <<deckVars, saveVars, mathCall, exportVars>>

\* resetToDefaults
ResetToDefaults ==
    /\ CanToast
    /\ blocks' = InitialBlocks
    /\ colors' = DefaultColors
    /\ styleVariant' = "cinematic"
    /\ referenceImages' = <<>>
    /\ activeImageIndex' = 0
    /\ storage' = <<>>
    /\ ShowToast("Reset to defaults", "info")
    /\ UNCHANGED <<isLoading, tasks, lastSettled, draggedBlock, dragOverBlock, mathCall, exportVars>>
    /\ AutoSaveEffect

(***************************************************************************)
(* Specifications                                                          *)
(***************************************************************************)
\* No colour function called on its own.
NoCall ==
    [fn |-> "none", pc |-> "idle", r |-> 0, g |-> 0, b |-> 0, hex |-> <<>>,
     percent |-> 0, out |-> <<>>, chan |-> <<>>, num |-> <<>>, sat |-> <<>>]

\* The useState initial values of the blocks, the style and the drag.
InitDeck ==
    /\ blocks = InitialBlocks
    /\ draggedBlock = NoBlock
    /\ dragOverBlock = NoBlock
    /\ styleVariant = "cinematic"

\* Nothing stored, so that the load effect of the mount finds no session;
\* the auto-save effect has run for the first render.
InitSave ==
    /\ hasUnsavedChanges = TRUE
    /\ storage = <<>>
    /\ saveTimers = <<Session>>
    /\ mounted = TRUE

\* No export under way.
NoExport == [pc |-> "idle", kind |-> "none", previousMode |-> "html", backgroundColor |-> <<>>]

InitExport ==
    /\ previewMode = "html"
    /\ isExporting = FALSE
    /\ exportTask = NoExport

\* The App after construction: no image, the cinematic preset.
Init ==
    /\ referenceImages = <<>>
    /\ activeImageIndex = 0
    /\ colors = Cinematic
    /\ isLoading = FALSE
    /\ toasts = <<>>
    /\ tasks = [r \in Slots |-> FreeTask]
    /\ lastSettled = 0
    /\ InitDeck
    /\ InitSave
    /\ InitExport
    /\ storageFull = FALSE
    /\ mathCall = NoCall

\* The uploads and extractions of a run, from the file handed to the upload
\* handler to the settled promise.
Next ==
    \/ \E file \in Files : HandleImageUploadStart(file)
    \/ \E r \in Slots : ReaderOnload(r)
    \/ \E r \in Slots : ReaderOnerror(r)
    \/ \E r \in Slots : ImgOnload(r)
    \/ \E r \in Slots : ImgOnerror(r)
    \/ \E index \in 0..(MaxImages - 1) : ExtractColorsFromImage(index)
    \/ ToastExpire

Spec == Init /\ [][Next]_vars

\* A handler that has run to its end, its promise settled or its read
\* failed, is done with: its closure is released and the slot is free again.
Forget(r) ==
    /\ tasks[r].pc \in {"resolved", "rejected", "readfailed"}
    /\ tasks' = [tasks EXCEPT ![r] = FreeTask]
    /\ UNCHANGED <<referenceImages, activeImageIndex, colors, isLoading, toasts, lastSettled>>
    /\ UNCHANGED <<deckVars, saveVars, mathCall, exportVars>>

\* The file uploaded in the specification of the image list: one that passes
\* the checks, of an image too poor in colours for a palette.
ImageFiles == {[isImage |-> TRUE, size |-> MaxFileBytes, img |-> ImgShort]}

\* Uploads without end, reads that overlap, removals and resets.
NextImages ==
    \/ \E file \in ImageFiles : HandleImageUploadStart(file)
    \/ \E file \in ImageFiles : HandleImageUploadRefused(file)
    \/ \E r \in Slots : ReaderOnload(r)
    \/ \E r \in Slots : ReaderOnerror(r)
    \/ \E r \in Slots : ImgOnload(r)
    \/ \E r \in Slots : Forget(r)
    \/ \E index \in 0..(MaxImages - 1) : RemoveImage(index)
    \/ ResetToDefaults
    \/ ToastExpire

SpecImages == Init /\ [][NextImages]_vars

\* extractColors called on its own, once, on any image of DeriveImages.
InitDerive ==
    /\ referenceImages = <<>>
    /\ activeImageIndex = 0
    /\ colors = Cinematic
    /\ isLoading = FALSE
    /\ toasts = <<>>
    /\ \E img \in DeriveImages :
          tasks = [r \in Slots |->
                     IF r = 1
                     THEN [FreeTask EXCEPT !.pc = "loading", !.kind = "direct", !.img = img]
                     ELSE FreeTask]
    /\ lastSettled = 0
    /\ InitDeck
    /\ InitSave
    /\ InitExport
    /\ storageFull = FALSE
    /\ mathCall = NoCall

NextDerive ==
    \/ \E r \in Slots : ImgOnload(r)
    \/ \E r \in Slots : ImgOnerror(r)

SpecDerive == InitDerive /\ [][NextDerive]_vars

\* extractColors called on its own, once, on an image of the editor, on one
\* ColorThief gives nothing for, on one with fewer than three sample
\* colours, or on one with three samples that are red or black.
LoadImages ==
    EditorImages \cup {ImageOf(NullThief)}
    \cup {ImageOf(ThiefOf(l)) : l \in UNION {[1..n -> SampleColors] : n \in 0..2}}
    \cup {ImageOf(ThiefOf(l)) : l \in [1..3 -> {<<255, 0, 0>>, <<0, 0, 0>>}]}

InitLoad ==
    /\ referenceImages = <<>>
    /\ activeImageIndex = 0
    /\ colors = Cinematic
    /\ isLoading = FALSE
    /\ toasts = <<>>
    /\ \E img \in LoadImages :
          tasks = [r \in Slots |->
                     IF r = 1
                     THEN [FreeTask EXCEPT !.pc = "loading", !.kind = "direct", !.img = img]
                     ELSE FreeTask]
    /\ lastSettled = 0
    /\ InitDeck
    /\ InitSave
    /\ InitExport
    /\ storageFull = FALSE
    /\ mathCall = NoCall

\* The browser reports every load it was given, by the load event or by the
\* error event.
FairLoad ==
    /\ WF_vars(\E r \in Slots : ImgOnload(r))
    /\ WF_vars(\E r \in Slots : ImgOnerror(r))

SpecLoad == InitLoad /\ [][NextDerive]_vars /\ FairLoad

(***************************************************************************)
(* App: handleColorChange, applyStylePreset                                *)
(***************************************************************************)
\* { [colorKey]: value } without the spread of prev.
OnlyRole(palette, colorKey, value) == [k \in {colorKey} |-> value]

\* { ...prev, [colorKey]: value }
WithRole(palette, colorKey, value) == [palette EXCEPT ![colorKey] = value]

\* handleColorChange(editingColor, e.target.value), from the colour input
\* while a swatch is being edited.
HandleColorChange(colorKey, value) ==
    /\ colors' = WithRole(colors, colorKey, value)
    /\ UNCHANGED <<referenceImages, activeImageIndex, isLoading, toasts, tasks, lastSettled>>
    /\ UNCHANGED <<deckVars, storage, mathCall, exportVars>>
    /\ AutoSaveEffect

\* `${variant.charAt(0).toUpperCase() + variant.slice(1)} style applied`
PresetToast ==
    [cinematic |-> "Cinematic style applied", bold |-> "Bold style applied",
     minimal |-> "Minimal style applied", noir |-> "Noir style applied",
     neon |-> "Neon style applied"]

\* applyStylePreset(variant)
ApplyStylePreset(variant) ==
    /\ CanToast
    /\ styleVariant' = variant
    /\ colors' = StylePresets[variant]
    /\ ShowToast(PresetToast[variant], "info")
    /\ UNCHANGED <<referenceImages, activeImageIndex, isLoading, tasks, lastSettled>>
    /\ UNCHANGED <<blocks, draggedBlock, dragOverBlock, mathCall, exportVars>>
    /\ IF styleVariant # variant \/ colors # StylePresets[variant]
       THEN AutoSaveEffect /\ UNCHANGED storage
       ELSE \/ AutoSaveEffect /\ UNCHANGED storage
            \/ UNCHANGED saveVars

\* The value the colour input hands over: '#' and six lowercase hex digits.
PickedColors == {Hex("1","2","a","b","e","f")}

\* The style buttons pressed and the file uploaded in the palette
\* specification.
PaletteVariants == {"bold", "neon"}

PaletteFiles == {[isImage |-> TRUE, size |-> MaxFileBytes, img |-> ImgA]}

\* The palette edited by hand, by style preset and by the extraction that
\* follows an upload.
NextPalette ==
    \/ \E colorKey \in Roles, value \in PickedColors : HandleColorChange(colorKey, value)
    \/ \E variant \in PaletteVariants : ApplyStylePreset(variant)
    \/ \E file \in PaletteFiles : HandleImageUploadStart(file)
    \/ \E r \in Slots : ReaderOnload(r)
    \/ \E r \in Slots : ImgOnload(r)
    \/ ToastExpire

SpecPalette == Init /\ [][NextPalette]_vars

(***************************************************************************)
(* App: drag and drop of the blocks                                        *)
(***************************************************************************)
\* prev.findIndex(b => b.id === id), 0-based, -1 when no block has the id.
FindIndex(prev, id) ==
    IF \E k \in DOMAIN prev : prev[k].id = id
    THEN (CHOOSE k \in DOMAIN prev :
             prev[k].id = id /\ \A j \in 1..(k - 1) : prev[j].id # id) - 1
    ELSE -1

\* The index at which Array.prototype.splice starts: a negative start counts
\* from the end, and the start is held within 0..length.
SpliceStart(length, start) ==
    IF start < 0 THEN Max2(length + start, 0) ELSE Min2(start, length)

\* The array after splice(start, 1).
SpliceOut(s, start) ==
    LET st == SpliceStart(Len(s), start)
    IN  IF st >= Len(s) THEN s ELSE SubSeq(s, 1, st) \o SubSeq(s, st + 2, Len(s))

\* The array after splice(start, 0, x).
SpliceIn(s, start, x) ==
    LET st == SpliceStart(Len(s), start)
    IN  SubSeq(s, 1, st) \o <<x>> \o SubSeq(s, st + 1, Len(s))

\* The target index lowered by one when the dragged block came before it.
InsertIndexShifted(draggedIndex, targetIndex) ==
    IF draggedIndex < targetIndex THEN targetIndex - 1 ELSE targetIndex

\* newBlocks.splice(targetIndex, 0, removed): the index found before the
\* removal is used as it is.
InsertIndex(draggedIndex, targetIndex) == targetIndex

\* The updater handleDrop hands to setBlocks.
Dropped(prev, dragged, target) ==
    LET draggedIndex == FindIndex(prev, dragged)
        targetIndex == FindIndex(prev, target)
        removed == prev[SpliceStart(Len(prev), draggedIndex) + 1]
    IN  SpliceIn(SpliceOut(prev, draggedIndex), InsertIndex(draggedIndex, targetIndex), removed)

HandleDragStart(blockId) ==
    /\ draggedBlock' = blockId
    /\ UNCHANGED <<blocks, dragOverBlock, styleVariant, editorVars, saveVars, mathCall, exportVars>>

\* e.preventDefault(); if (blockId !== draggedBlock) setDragOverBlock(blockId)
HandleDragOver(blockId) ==
    /\ blockId # draggedBlock
    /\ dragOverBlock' = blockId
    /\ UNCHANGED <<blocks, draggedBlock, styleVariant, editorVars, saveVars, mathCall, exportVars>>

\* handleDrop(targetBlockId); with nothing dragged, or on the dragged block
\* itself, the handler returns at once.
HandleDrop(targetBlockId) ==
    /\ draggedBlock # NoBlock
    /\ draggedBlock # targetBlockId
    /\ blocks' = Dropped(blocks, draggedBlock, targetBlockId)
    /\ draggedBlock' = NoBlock
    /\ dragOverBlock' = NoBlock
    /\ UNCHANGED <<styleVariant, editorVars, mathCall, exportVars>>
    /\ UNCHANGED storage
    /\ AutoSaveEffect

HandleDragEnd ==
    /\ draggedBlock' = NoBlock
    /\ dragOverBlock' = NoBlock
    /\ UNCHANGED <<blocks, styleVariant, editorVars, saveVars, mathCall, exportVars>>

\* The blocks the user drags and drops on: the first MaxDragged of the list.
MaxDragged == 4

DragIds == {BlockIds[i] : i \in 1..MaxDragged}

NextDrag ==
    \/ \E blockId \in DragIds : HandleDragStart(blockId)
    \/ \E blockId \in DragIds : HandleDragOver(blockId)
    \/ \E targetBlockId \in DragIds : HandleDrop(targetBlockId)
    \/ HandleDragEnd

SpecDrag == Init /\ [][NextDrag]_vars

(***************************************************************************)
(* App: the files handed to handleImageUpload                              *)
(***************************************************************************)
\* A file that passes the checks, at the size limit; a file of another type;
\* an image one byte over the limit; a file of another type over the limit.
UploadFiles ==
    {[isImage |-> TRUE, size |-> MaxFileBytes, img |-> ImgShort],
     [isImage |-> FALSE, size |-> 1, img |-> BrokenImage],
     [isImage |-> TRUE, size |-> MaxFileBytes + 1, img |-> ImgShort],
     [isImage |-> FALSE, size |-> MaxFileBytes + 1, img |-> BrokenImage]}

\* handleImageUpload(e) with a file selected.
HandleImageUpload(file) ==
    \/ HandleImageUploadRefused(file)
    \/ HandleImageUploadStart(file)

\* Change events of the file input, with and without a file, and the reads
\* and extractions they start.
NextUpload ==
    \/ HandleImageUploadNoFile
    \/ \E file \in UploadFiles : HandleImageUpload(file)
    \/ \E r \in Slots : ReaderOnload(r)
    \/ \E r \in Slots : ImgOnload(r)
    \/ \E r \in Slots : Forget(r)
    \/ ToastExpire

SpecUpload == Init /\ [][NextUpload]_vars

(***************************************************************************)
(* App: exportToPDF, exportToImage and the preview mode                    *)
(***************************************************************************)
\* type PreviewMode
PreviewModes == {"html", "pdf"}

\* The preview mode toggle: onClick={() => setPreviewMode(mode)}.  The two
\* buttons are enabled at all times.
SetPreviewMode(mode) ==
    /\ previewMode' = mode
    /\ UNCHANGED <<isExporting, exportTask>>
    /\ UNCHANGED <<editorVars, deckVars, saveVars, mathCall>>

\* exportToPDF with no preview element: if (!previewRef.current) return;
ExportToPDFAbsent == UNCHANGED vars

\* finally { ...; setPreviewMode(previousMode) }
FinallyMode(task) == IF task.kind = "pdf" THEN task.previousMode ELSE previewMode

\* The end of an export: the toast of the try or of the catch branch, then
\* the finally block.
ExportEnds(message, type) ==
    /\ CanToast
    /\ ShowToast(message, type)
    /\ isExporting' = FALSE
    /\ previewMode' = FinallyMode(exportTask)
    /\ exportTask' = NoExport
    /\ UNCHANGED <<referenceImages, activeImageIndex, colors, isLoading, tasks, lastSettled>>
    /\ UNCHANGED <<deckVars, saveVars, mathCall>>

\* exportToPDF, from the Export PDF button (disabled while isExporting), up
\* to the first await.
ExportToPDFStart ==
    /\ ~isExporting
    /\ CanToast
    /\ exportTask' = [pc |-> "waiting", kind |-> "pdf", previousMode |-> previewMode,
                      backgroundColor |-> colors.dark]
    /\ previewMode' = "pdf"
    /\ isExporting' = TRUE
    /\ ShowToast("Generating PDF...", "info")
    /\ UNCHANGED <<referenceImages, activeImageIndex, colors, isLoading, tasks, lastSettled>>
    /\ UNCHANGED <<deckVars, saveVars, mathCall>>

\* The 200 ms timer fires: the try block runs up to await html2canvas, or
\* throws before it.
ExportToPDFWaited(threw) ==
    /\ exportTask.pc = "waiting"
    /\ IF threw
       THEN ExportEnds("Failed to export PDF", "error")
       ELSE /\ exportTask' = [exportTask EXCEPT !.pc = "rendering"]
            /\ UNCHANGED <<previewMode, isExporting>>
            /\ UNCHANGED <<editorVars, deckVars, saveVars, mathCall>>

\* html2canvas settles: the PDF is saved, or the promise rejected or jsPDF
\* threw.
ExportToPDFRendered(threw) ==
    /\ exportTask.pc = "rendering"
    /\ exportTask.kind = "pdf"
    /\ IF threw
       THEN ExportEnds("Failed to export PDF", "error")
       ELSE ExportEnds("PDF exported successfully", "success")

\* exportToImage, from the PNG button (disabled while isExporting), up to
\* await html2canvas.
ExportToImageStart ==
    /\ ~isExporting
    /\ CanToast
    /\ exportTask' = [pc |-> "rendering", kind |-> "image", previousMode |-> previewMode,
                      backgroundColor |-> colors.dark]
    /\ isExporting' = TRUE
    /\ ShowToast("Generating image...", "info")
    /\ UNCHANGED previewMode
    /\ UNCHANGED <<referenceImages, activeImageIndex, colors, isLoading, tasks, lastSettled>>
    /\ UNCHANGED <<deckVars, saveVars, mathCall>>

ExportToImageRendered(threw) ==
    /\ exportTask.pc = "rendering"
    /\ exportTask.kind = "image"
    /\ IF threw
       THEN ExportEnds("Failed to export image", "error")
       ELSE ExportEnds("Image exported successfully", "success")

\* The dark colours picked while exporting.
ExportBackgrounds == PickedColors \cup {Hex("0","0","0","0","0","0")}

\* The exports, the preview mode toggle and the dark colour edited, which
\* the export under way took as its background.
NextExport ==
    \/ ExportToPDFAbsent
    \/ ExportToPDFStart
    \/ \E threw \in BOOLEAN : ExportToPDFWaited(threw)
    \/ \E threw \in BOOLEAN : ExportToPDFRendered(threw)
    \/ ExportToImageStart
    \/ \E threw \in BOOLEAN : ExportToImageRendered(threw)
    \/ \E mode \in PreviewModes : SetPreviewMode(mode)
    \/ \E value \in ExportBackgrounds : HandleColorChange("dark", value)
    \/ ToastExpire

SpecExport == Init /\ [][NextExport]_vars

(***************************************************************************)
(* App: the session saved                                                  *)
(***************************************************************************)
\* toggleBlockVisibility(blockId)
ToggleBlockVisibility(blockId) ==
    /\ blocks' = [k \in DOMAIN blocks |->
                    IF blocks[k].id = blockId
                    THEN [blocks[k] EXCEPT !.visible = ~@]
                    ELSE blocks[k]]
    /\ UNCHANGED <<draggedBlock, dragOverBlock, styleVariant, editorVars, storage, mathCall, exportVars>>
    /\ AutoSaveEffect

\* saveState, called by the timer of the effect's last run with the values
\* of that render: the session is written and the flag cleared, or setItem
\* throws and the catch logs the error.
SaveFires ==
    /\ saveTimers # <<>>
    /\ saveTimers' = Tail(saveTimers)
    /\ IF storageFull
       THEN UNCHANGED <<storage, hasUnsavedChanges>>
       ELSE /\ storage' = <<Head(saveTimers)>>
            /\ hasUnsavedChanges' = FALSE
    /\ UNCHANGED <<storageFull, mounted, editorVars, deckVars, mathCall, exportVars>>

\* The App mounted in a browser whose localStorage takes the session, or
\* refuses it.
InitSaving ==
    /\ referenceImages = <<>>
    /\ activeImageIndex = 0
    /\ colors = Cinematic
    /\ isLoading = FALSE
    /\ toasts = <<>>
    /\ tasks = [r \in Slots |-> FreeTask]
    /\ lastSettled = 0
    /\ InitDeck
    /\ InitSave
    /\ InitExport
    /\ storageFull \in BOOLEAN
    /\ mathCall = NoCall

\* The block hidden and shown, the style pressed and the file uploaded in
\* the specification of the session saved.
SavedBlockIds == {BlockIds[1]}

SavedVariants == {"bold"}

\* One image is uploaded at a time, while the list is empty.
OneUpload == referenceImages = <<>> /\ \A r \in Slots : tasks[r].pc = "free"

\* The handlers that set one of blocks, colors, styleVariant,
\* referenceImages.
SessionChange ==
    \/ \E blockId \in SavedBlockIds : ToggleBlockVisibility(blockId)
    \/ \E variant \in SavedVariants : ApplyStylePreset(variant)
    \/ \E value \in PickedColors : HandleColorChange("accent", value)
    \/ \E r \in Slots : ReaderOnload(r)
    \/ RemoveImage(0)
    \/ ResetToDefaults

NextSave ==
    \/ SessionChange
    \/ \E file \in ImageFiles : OneUpload /\ HandleImageUploadStart(file)
    \/ \E r \in Slots : ImgOnload(r)
    \/ \E r \in Slots : Forget(r)
    \/ SaveFires
    \/ ToastExpire

\* setTimeout(saveState, 1000): a timer that is not cleared fires.
FairSave == WF_vars(SaveFires)

SpecSave == InitSaving /\ [][NextSave]_vars /\ FairSave

(***************************************************************************)
(* App: the session loaded on mount                                        *)
(***************************************************************************)
\* The load without the branch of the old format.
LoadedImagesNoLegacy(state, prev) ==
    IF "referenceImages" \in DOMAIN state THEN state.referenceImages ELSE prev

\* if (state.referenceImages) setReferenceImages(state.referenceImages);
\* else if (state.referenceImage) setReferenceImages([state.referenceImage]);
\* An array, empty or not, is truthy, and so is an image URL.
LoadedImages(state, prev) ==
    IF "referenceImages" \in DOMAIN state THEN state.referenceImages
    ELSE IF "referenceImage" \in DOMAIN state THEN <<state.referenceImage>>
    ELSE prev

\* if (state.blocks) setBlocks(state.blocks), and so on: a field that is
\* absent is undefined and leaves the useState value; an array or an object
\* is truthy, a style name is when it is not the empty string.
LoadedBlocks(state, prev) == IF "blocks" \in DOMAIN state THEN state.blocks ELSE prev

LoadedColors(state, prev) == IF "colors" \in DOMAIN state THEN state.colors ELSE prev

LoadedStyle(state, prev) ==
    IF "styleVariant" \in DOMAIN state /\ state.styleVariant # ""
    THEN state.styleVariant ELSE prev

\* A setter is called with a value JSON.parse has made: the next render has
\* new dependencies.
LoadSetsState(state) ==
    DOMAIN state \cap {"blocks", "colors", "referenceImages", "referenceImage"} # {}

\* The effects of the first render, in their order.  The load effect reads
\* the stored text and, with a session there, calls the setters and shows a
\* toast; the auto-save effect sets its timer with the useState values; the
\* render the setters cause runs the auto-save effect again, cleanup first.
Mount ==
    /\ ~mounted
    /\ mounted' = TRUE
    /\ IF storage = <<>>
       THEN /\ UNCHANGED <<blocks, colors, styleVariant, referenceImages, toasts>>
            /\ saveTimers' = <<Session>>
       ELSE /\ blocks' = LoadedBlocks(storage[1], blocks)
            /\ colors' = LoadedColors(storage[1], colors)
            /\ styleVariant' = LoadedStyle(storage[1], styleVariant)
            /\ referenceImages' = LoadedImages(storage[1], referenceImages)
            /\ ShowToast("Previous session restored", "info")
            /\ saveTimers' = IF LoadSetsState(storage[1])
                             THEN Append(ClearTimeout(<<Session>>), Session')
                             ELSE <<Session>>
    /\ hasUnsavedChanges' = TRUE
    /\ UNCHANGED <<storage, storageFull>>
    /\ UNCHANGED <<activeImageIndex, isLoading, tasks, lastSettled>>
    /\ UNCHANGED <<draggedBlock, dragOverBlock, mathCall, exportVars>>

\* The page is loaded again: the App is constructed anew with its useState
\* values, the timers and promises of the old page are gone, localStorage
\* stays.
Reload ==
    /\ mounted
    /\ mounted' = FALSE
    /\ referenceImages' = <<>>
    /\ activeImageIndex' = 0
    /\ colors' = Cinematic
    /\ isLoading' = FALSE
    /\ toasts' = <<>>
    /\ tasks' = [r \in Slots |-> FreeTask]
    /\ lastSettled' = 0
    /\ blocks' = InitialBlocks
    /\ draggedBlock' = NoBlock
    /\ dragOverBlock' = NoBlock
    /\ styleVariant' = "cinematic"
    /\ hasUnsavedChanges' = FALSE
    /\ saveTimers' = <<>>
    /\ previewMode' = "html"
    /\ isExporting' = FALSE
    /\ exportTask' = NoExport
    /\ UNCHANGED <<storage, storageFull, mathCall>>

\* A session of the old format, with one image; a stored object with none
\* of the fields.
LegacySession ==
    [blocks |-> InitialBlocks, colors |-> Bold, referenceImage |-> ImgShort]

EmptyObject == [k \in {} |-> ""]

\* The App constructed, its effects not yet run, in a browser that holds no
\* session, one of the old format or an object that is no session.
InitMount ==
    /\ referenceImages = <<>>
    /\ activeImageIndex = 0
    /\ colors = Cinematic
    /\ isLoading = FALSE
    /\ toasts = <<>>
    /\ tasks = [r \in Slots |-> FreeTask]
    /\ lastSettled = 0
    /\ InitDeck
    /\ hasUnsavedChanges = FALSE
    /\ storage \in {<<>>, <<LegacySession>>, <<EmptyObject>>}
    /\ saveTimers = <<>>
    /\ mounted = FALSE
    /\ InitExport
    /\ storageFull = FALSE
    /\ mathCall = NoCall

\* Sessions edited, saved, and loaded by the next page.
NextMount ==
    \/ Mount
    \/ Reload
    \/ mounted /\ \E blockId \in {BlockIds[1]} : ToggleBlockVisibility(blockId)
    \/ mounted /\ \E variant \in {"bold"} : ApplyStylePreset(variant)
    \/ mounted /\ RemoveImage(0)
    \/ mounted /\ SaveFires
    \/ ToastExpire

SpecMount == InitMount /\ [][NextMount]_vars

(***************************************************************************)
(* BlockComponents: the image a block shows                                *)
(***************************************************************************)
\* renderBlock: the imageIndex handed to the four components that take
\* referenceImages; the other six are given no image.
ImageIndexOf == [hero |-> 0, story |-> 1, character |-> 2, closing |-> 3]

\* referenceImages[imageIndex] with no remainder taken.
ImageAtNoWrap(images, imageIndex) ==
    IF imageIndex < Len(images) THEN <<images[imageIndex + 1]>> ELSE <<>>

\* referenceImages[imageIndex % referenceImages.length] || null, as <<>> or
\* <<image>>: with no image the remainder is NaN and the element undefined.
ImageAt(images, imageIndex) ==
    IF Len(images) = 0 THEN <<>> ELSE <<images[(imageIndex % Len(images)) + 1]>>

\* const image of the component of the block.
BlockImage(block, images) ==
    IF block.type \in DOMAIN ImageIndexOf
    THEN ImageAt(images, ImageIndexOf[block.type])
    ELSE <<>>

\* The image in the markup: {image && (...)}, in StoryBlock
\* {image && layoutA && (...)}.
ShownImage(block, images) ==
    IF block.type = "story" /\ block.layout # "A" THEN <<>> ELSE BlockImage(block, images)

\* toggleBlockLayout(blockId)
ToggleBlockLayout(blockId) ==
    /\ blocks' = [k \in DOMAIN blocks |->
                    IF blocks[k].id = blockId
                    THEN [blocks[k] EXCEPT !.layout = IF @ = "A" THEN "B" ELSE "A"]
                    ELSE blocks[k]]
    /\ UNCHANGED <<draggedBlock, dragOverBlock, styleVariant, editorVars, storage, mathCall, exportVars>>
    /\ AutoSaveEffect

\* The files uploaded one after the other in the specification of the
\* preview: four images that differ.
PreviewFiles ==
    [n \in 1..MaxImages |->
        [isImage |-> TRUE, size |-> 1, img |-> <<ImgA, ImgB, ImgShort, BrokenImage>>[n]]]

\* One upload at a time; the file taken depends on the images present.
NextPreviewFile ==
    /\ \A r \in Slots : tasks[r].pc = "free"
    /\ Len(referenceImages) < MaxImages
    /\ HandleImageUploadStart(PreviewFiles[Len(referenceImages) + 1])

\* Images uploaded and removed, and the layout of the story block toggled.
NextPreview ==
    \/ NextPreviewFile
    \/ \E r \in Slots : ReaderOnload(r)
    \/ \E r \in Slots : ImgOnload(r)
    \/ \E r \in Slots : ImgOnerror(r)
    \/ \E r \in Slots : Forget(r)
    \/ RemoveImage(0)
    \/ \E blockId \in {BlockIds[3]} : ToggleBlockLayout(blockId)
    \/ ToastExpire

SpecPreview == Init /\ [][NextPreview]_vars

(***************************************************************************)
(* App: the block list and the blocks of the preview                       *)
(***************************************************************************)
\* A filter that lets every block through.
VisibleBlocksUnfiltered == blocks

IsVisible(b) == b.visible

\* const visibleBlocks = blocks.filter(b => b.visible)
VisibleBlocks == SelectSeq(blocks, IsVisible)

\* visibleBlocks.map((block) => <div key={block.id}>...): the ids of the
\* blocks of the preview, in the order they are shown.
Preview == [k \in DOMAIN VisibleBlocks |-> VisibleBlocks[k].id]

\* handleBlockUpdate(updatedBlock), called by the EditableText of a shown
\* block when it loses focus with a text that differs:
\* onUpdate({ ...block, title: val }) or onUpdate({ ...block, content: val }).
HandleBlockUpdate(updatedBlock) ==
    /\ blocks' = [k \in DOMAIN blocks |->
                    IF blocks[k].id = updatedBlock.id THEN updatedBlock ELSE blocks[k]]
    /\ UNCHANGED <<draggedBlock, dragOverBlock, styleVariant, editorVars, storage, mathCall, exportVars>>
    /\ AutoSaveEffect

\* The titles typed into the title of the hero block.
TypedTitles == {BlockTitles[1], "UNTITLED"}

\* The contents typed into a shown block.
TypedContents == {"Once upon a time"}

\* The blocks edited, hidden and shown, and given the other layout.
EditedIds == {BlockIds[1], BlockIds[2]}

HiddenIds == {BlockIds[2]}

LayoutIds == {BlockIds[3]}

\* The blocks dragged and dropped on in the specification of the block list.
DeckDragIds == {BlockIds[1], BlockIds[2], BlockIds[3]}

\* The blocks handed to handleBlockUpdate by the EditableTexts of a shown
\* block (the hero block has the one editable title); handleBlur calls
\* onChange only if (localValue !== value).
UpdatesOf(block) ==
    {[block EXCEPT !.title = val] :
        val \in {t \in TypedTitles : block.type = "hero" /\ t # block.title}}
    \cup {[block EXCEPT !.content = val] :
        val \in {c \in TypedContents : c # block.content}}

Updates ==
    UNION {UpdatesOf(VisibleBlocks[k]) :
              k \in {j \in DOMAIN VisibleBlocks : VisibleBlocks[j].id \in EditedIds}}

\* setAllLayouts(layout)
SetAllLayouts(layout) ==
    /\ CanToast
    /\ blocks' = [k \in DOMAIN blocks |-> [blocks[k] EXCEPT !.layout = layout]]
    /\ ShowToast("All blocks set to Layout " \o layout, "success")
    /\ UNCHANGED <<referenceImages, activeImageIndex, colors, isLoading, tasks, lastSettled>>
    /\ UNCHANGED <<draggedBlock, dragOverBlock, styleVariant, storage, mathCall, exportVars>>
    /\ AutoSaveEffect

NextDeck ==
    \/ \E updatedBlock \in Updates : HandleBlockUpdate(updatedBlock)
    \/ \E blockId \in LayoutIds : ToggleBlockLayout(blockId)
    \/ \E blockId \in HiddenIds : ToggleBlockVisibility(blockId)
    \/ \E layout \in {"A", "B"} : SetAllLayouts(layout)
    \/ \E blockId \in DeckDragIds : HandleDragStart(blockId)
    \/ \E blockId \in DeckDragIds : HandleDragOver(blockId)
    \/ \E targetBlockId \in DeckDragIds : HandleDrop(targetBlockId)
    \/ HandleDragEnd
    \/ ResetToDefaults
    \/ ToastExpire

SpecDeck == Init /\ [][NextDeck]_vars

(***************************************************************************)
(* The colour functions called on their own                                *)
(***************************************************************************)
\* How far below 0 and above 255 the channels handed to rgbToHex go.
Overshoot == 16

\* The percents handed to adjustBrightness: -MaxPercent..MaxPercent.
MaxPercent == 100

\* The values two channels take while the third runs over its whole range.
FixedChannels == {0, 128, 255}

\* The triples with one channel anywhere in range and two fixed ones.
ChannelSweep(range) ==
    {<<x, y, z>> : x \in range, y \in FixedChannels, z \in FixedChannels}
    \cup {<<y, x, z>> : x \in range, y \in FixedChannels, z \in FixedChannels}
    \cup {<<y, z, x>> : x \in range, y \in FixedChannels, z \in FixedChannels}

ByteTriples == ChannelSweep(0..255)

WideTriples == ChannelSweep((0 - Overshoot)..(255 + Overshoot))

\* A sample [r, g, b] written as '#rrggbb', digit by digit: the colour
\* strings handed to adjustBrightness and to the saturation of
\* getMostVibrant.
HexOfSample(c) ==
    <<"#", HexDigits[(c[1] \div 16) + 1], HexDigits[(c[1] % 16) + 1],
           HexDigits[(c[2] \div 16) + 1], HexDigits[(c[2] % 16) + 1],
           HexDigits[(c[3] \div 16) + 1], HexDigits[(c[3] % 16) + 1]>>

CallOf(fn, c, hex, percent) ==
    [NoCall EXCEPT !.fn = fn, !.pc = "called", !.r = c[1], !.g = c[2],
                   !.b = c[3], !.hex = hex, !.percent = percent]

\* rgbToHex on integers in and out of 0..255; adjustBrightness on every
\* colour of ByteTriples with the percents of the code (20 and -30) and 0,
\* and on the sample colours with every percent; the saturation of every
\* colour of ByteTriples.
InitMath ==
    /\ referenceImages = <<>>
    /\ activeImageIndex = 0
    /\ colors = Cinematic
    /\ isLoading = FALSE
    /\ toasts = <<>>
    /\ tasks = [r \in Slots |-> FreeTask]
    /\ lastSettled = 0
    /\ InitDeck
    /\ InitSave
    /\ InitExport
    /\ storageFull = FALSE
    /\ \/ \E c \in WideTriples : mathCall = CallOf("rgbToHex", c, <<>>, 0)
       \/ \E c \in ByteTriples, p \in {0, 20, -30} :
             mathCall = CallOf("adjustBrightness", c, HexOfSample(c), p)
       \/ \E c \in SampleColors, p \in (0 - MaxPercent)..MaxPercent :
             mathCall = CallOf("adjustBrightness", c, HexOfSample(c), p)
       \/ \E c \in ByteTriples : mathCall = CallOf("saturation", c, HexOfSample(c), 0)

CallRgbToHex ==
    /\ mathCall.fn = "rgbToHex"
    /\ mathCall.pc = "called"
    /\ mathCall' = [mathCall EXCEPT !.pc = "returned",
                       !.out = RgbToHex(mathCall.r, mathCall.g, mathCall.b)]
    /\ UNCHANGED <<editorVars, deckVars, saveVars, exportVars>>

\* The string rgbToHex returned, parsed as getLuminance and getMostVibrant
\* parse a colour (chan) and as adjustBrightness does (num).
CallParse ==
    /\ mathCall.fn = "rgbToHex"
    /\ mathCall.pc = "returned"
    /\ mathCall' = [mathCall EXCEPT !.pc = "parsed",
                       !.chan = ChannelsOf(mathCall.out),
                       !.num = NumChannels(mathCall.out)]
    /\ UNCHANGED <<editorVars, deckVars, saveVars, exportVars>>

CallAdjustBrightness ==
    /\ mathCall.fn = "adjustBrightness"
    /\ mathCall.pc = "called"
    /\ mathCall' = [mathCall EXCEPT !.pc = "returned",
                       !.out = AdjustBrightness(mathCall.hex, mathCall.percent)]
    /\ UNCHANGED <<editorVars, deckVars, saveVars, exportVars>>

\* const saturation = max === 0 ? 0 : (max - min) / max
CallSaturation ==
    /\ mathCall.fn = "saturation"
    /\ mathCall.pc = "called"
    /\ mathCall' = [mathCall EXCEPT !.pc = "returned",
                       !.sat = Saturation(mathCall.hex)]
    /\ UNCHANGED <<editorVars, deckVars, saveVars, exportVars>>

NextMath ==
    \/ CallRgbToHex
    \/ CallParse
    \/ CallAdjustBrightness
    \/ CallSaturation

SpecMath == InitMath /\ [][NextMath]_vars

(***************************************************************************)
(* Properties                                                              *)
(***************************************************************************)
Settled(r) == tasks[r].pc \in {"resolved", "rejected"}

Resolved(r) == tasks[r].pc = "resolved"

\* The samples ColorThief gave for the image of task r, and the palette its
\* promise resolved with.
SamplesOf(r) == tasks[r].img.thief.list

PaletteOf(r) == tasks[r].value[1]

\* '#' followed by six lowercase hex digits.
IsHex7(h) == Len(h) = 7 /\ h[1] = "#" /\ \A i \in 2..7 : h[i] \in HexDigitSet

\* 0.299 R + 0.587 G + 0.114 B of a sample, in thousandths.
SampleLum(c) == 299 * c[1] + 587 * c[2] + 114 * c[3]

SampleMax(c) == Max2(c[1], Max2(c[2], c[3]))

SampleMin(c) == Min2(c[1], Min2(c[2], c[3]))

\* saturation(a) > saturation(b) for two samples, (max - min) / max with 0
\* for black, compared without dividing.
MoreSaturated(a, b) ==
    IF SampleMax(a) = 0 THEN FALSE
    ELSE IF SampleMax(b) = 0 THEN SampleMax(a) - SampleMin(a) > 0
    ELSE (SampleMax(a) - SampleMin(a)) * SampleMax(b) > (SampleMax(b) - SampleMin(b)) * SampleMax(a)

\* C1: every extraction whose image decoded and gave at least 3 samples
\* resolved, with a palette that has exactly the five roles, each '#' and
\* six lowercase hex digits.
C1_TotalCoverage ==
    \A r \in Slots :
        (Settled(r) /\ tasks[r].img.decodes /\ ~tasks[r].img.thief.isNull /\ Len(SamplesOf(r)) >= 3)
        => /\ Resolved(r)
           /\ Len(tasks[r].value) = 1
           /\ DOMAIN PaletteOf(r) = Roles
           /\ \A k \in Roles : IsHex7(PaletteOf(r)[k])

\* A minimal list of 3 samples, led by a colour whose channels print as one
\* hex digit each, has been derived.
C1_Witness ==
    \E r \in Slots :
        /\ Resolved(r)
        /\ Len(SamplesOf(r)) = 3
        /\ SamplesOf(r)[1] = <<10, 5, 0>>
        /\ PaletteOf(r).primary = <<"#", "0", "a", "0", "5", "0", "0">>

\* C2: an extraction whose image decoded but gave no list, or a list of 0, 1
\* or 2 colours, is rejected and holds no palette.
C2_TooFewRejected ==
    \A r \in Slots :
        (Settled(r) /\ tasks[r].img.decodes
           /\ (tasks[r].img.thief.isNull \/ Len(SamplesOf(r)) \in {0, 1, 2}))
        => /\ tasks[r].pc = "rejected"
           /\ tasks[r].value = <<>>
           /\ tasks[r].error = "Could not extract enough colors"

\* A list of exactly 2 samples has been rejected.
C2_Witness ==
    \E r \in Slots :
        /\ tasks[r].pc = "rejected"
        /\ tasks[r].img.decodes
        /\ ~tasks[r].img.thief.isNull
        /\ Len(SamplesOf(r)) = 2

\* C3: a step of an upload or extraction that does not resolve its promise
\* (its start, the file read, its failure) leaves the current palette as it
\* was, role by role, and the step in which the promise is rejected appends
\* an error toast.
C3_FailureKeepsPalette ==
    [][\A r \in Slots :
          /\ (tasks'[r] # tasks[r] /\ tasks'[r].pc # "resolved")
                => \A k \in Roles : colors'[k] = colors[k]
          /\ (tasks[r].pc = "loading" /\ tasks'[r].pc = "rejected")
                => /\ Len(toasts') = Len(toasts) + 1
                   /\ toasts'[Len(toasts')].type = "error"
                   /\ SubSeq(toasts', 1, Len(toasts)) = toasts]_vars

\* One extraction resolved and set the palette, a later one was rejected
\* (too few samples, or an image that did not load), and the palette is
\* still the one the first delivered, with the error toast showing.
C3_Witness ==
    /\ Resolved(1)
    /\ tasks[2].pc = "rejected"
    /\ lastSettled = 2
    /\ colors = PaletteOf(1)
    /\ colors # Cinematic
    /\ toasts # <<>>
    /\ toasts[Len(toasts)].type = "error"

\* C4: when the promise that settled last resolved, the current palette is
\* the palette it resolved with, whichever slot (order of start) it has.
C4_LastCompletedWins ==
    (lastSettled # 0 /\ Resolved(lastSettled)) => colors = PaletteOf(lastSettled)

\* Two requests overlapped (slot 2 started after slot 1 and settled before
\* it), both resolved with different palettes, and the palette is that of
\* slot 1, which started first and completed last.
C4_Witness ==
    /\ Resolved(1)
    /\ Resolved(2)
    /\ lastSettled = 1
    /\ PaletteOf(1) # PaletteOf(2)
    /\ colors = PaletteOf(1)

\* C5: primary is the first sample and secondary the second, in ColorThief's
\* order, both unmodified.
C5_RankRoles ==
    \A r \in Slots :
        Resolved(r)
        => /\ PaletteOf(r).primary = HexOfSample(SamplesOf(r)[1])
           /\ PaletteOf(r).secondary = HexOfSample(SamplesOf(r)[2])

\* A list whose dominance order is not its luminance order: the first sample
\* is not the darkest and the second not the next.
C5_Witness ==
    \E r \in Slots :
        /\ Resolved(r)
        /\ SampleLum(SamplesOf(r)[1]) > SampleLum(SamplesOf(r)[2])
        /\ SampleLum(SamplesOf(r)[2]) > SampleLum(SamplesOf(r)[3])
        /\ PaletteOf(r).primary = HexOfSample(SamplesOf(r)[1])

\* C6: accent is the sample at the first index no other sample is more
\* saturated than; no earlier sample has the same saturation, and with all
\* saturations 0 it is the first sample.
C6_AccentMostVibrant ==
    \A r \in Slots :
        Resolved(r)
        => \E i \in 1..Len(SamplesOf(r)) :
              /\ PaletteOf(r).accent = HexOfSample(SamplesOf(r)[i])
              /\ \A j \in 1..Len(SamplesOf(r)) : ~MoreSaturated(SamplesOf(r)[j], SamplesOf(r)[i])
              /\ \A j \in 1..(i - 1) : MoreSaturated(SamplesOf(r)[i], SamplesOf(r)[j])

\* Two different samples share the highest saturation, above 0, after a less
\* saturated first sample, and accent is the earlier of the two.
C6_Witness ==
    \E r \in Slots :
        /\ Resolved(r)
        /\ Len(SamplesOf(r)) = 3
        /\ MoreSaturated(SamplesOf(r)[2], SamplesOf(r)[1])
        /\ ~MoreSaturated(SamplesOf(r)[2], SamplesOf(r)[3])
        /\ ~MoreSaturated(SamplesOf(r)[3], SamplesOf(r)[2])
        /\ SamplesOf(r)[2] # SamplesOf(r)[3]
        /\ PaletteOf(r).accent = HexOfSample(SamplesOf(r)[2])

\* C7: dark is adjustBrightness(d, -30) of a sample d of least luminance:
\* each channel of d less 76, not below 0; no channel of dark exceeds that
\* channel of d and the luminance of dark exceeds that of no sample.
C7_DarkFromDarkest ==
    \A r \in Slots :
        Resolved(r)
        => \E i \in 1..Len(SamplesOf(r)) :
              LET d == SamplesOf(r)[i]
                  dark == ChannelsOf(PaletteOf(r).dark)
              IN  /\ \A j \in 1..Len(SamplesOf(r)) : SampleLum(d) <= SampleLum(SamplesOf(r)[j])
                  /\ PaletteOf(r).dark = AdjustBrightness(HexOfSample(d), -30)
                  /\ \A ch \in 1..3 : dark[ch] = Max2(0, d[ch] - 76) /\ dark[ch] <= d[ch]
                  /\ \A j \in 1..Len(SamplesOf(r)) : SampleLum(dark) <= SampleLum(SamplesOf(r)[j])

\* The darkest sample is not the first, has a channel above 76 and one below,
\* so that dark is darkened in one channel and clamped to 0 in another.
C7_Witness ==
    \E r \in Slots :
        /\ Resolved(r)
        /\ SamplesOf(r)[1] = <<255, 255, 255>>
        /\ SamplesOf(r)[3] = <<1, 0, 157>>
        /\ PaletteOf(r).dark = <<"#", "0", "0", "0", "0", "5", "1">>

\* C8: light is one of the samples, unmodified, and no sample has a greater
\* luminance.
C8_LightIsLightest ==
    \A r \in Slots :
        Resolved(r)
        => \E i \in 1..Len(SamplesOf(r)) :
              /\ PaletteOf(r).light = HexOfSample(SamplesOf(r)[i])
              /\ \A j \in 1..Len(SamplesOf(r)) : SampleLum(SamplesOf(r)[j]) <= SampleLum(SamplesOf(r)[i])

\* The lightest sample is neither first nor last in dominance order and is
\* not white, so brightening it would change it.
C8_Witness ==
    \E r \in Slots :
        /\ Resolved(r)
        /\ Len(SamplesOf(r)) = 3
        /\ SamplesOf(r)[2] = <<160, 160, 160>>
        /\ SampleLum(SamplesOf(r)[1]) < SampleLum(SamplesOf(r)[2])
        /\ SampleLum(SamplesOf(r)[3]) < SampleLum(SamplesOf(r)[2])
        /\ PaletteOf(r).light = <<"#", "a", "0", "a", "0", "a", "0">>

\* C9: for the samples #202020, #a0a0a0, #ff0000, #00ffaa the palette has
\* primary #202020, secondary #a0a0a0, accent #ff0000 and dark #000000.
C9_Scenario ==
    \A r \in Slots :
        (Resolved(r) /\ SamplesOf(r) = ScenarioSamples)
        => /\ PaletteOf(r).primary = <<"#", "2", "0", "2", "0", "2", "0">>
           /\ PaletteOf(r).secondary = <<"#", "a", "0", "a", "0", "a", "0">>
           /\ PaletteOf(r).accent = <<"#", "f", "f", "0", "0", "0", "0">>
           /\ PaletteOf(r).dark = <<"#", "0", "0", "0", "0", "0", "0">>

\* The scenario's samples have been derived.
C9_Witness == \E r \in Slots : Resolved(r) /\ SamplesOf(r) = ScenarioSamples /\ Len(tasks[r].value) = 1

\* C10, as the spec states it: for the scenario's samples the ascending
\* luminance ranking is #202020, #ff0000, #00ffaa, #a0a0a0 and light is
\* #a0a0a0.
C10_ScenarioLightAsStated ==
    \A r \in Slots :
        (Resolved(r) /\ SamplesOf(r) = ScenarioSamples)
        => /\ SortByLuminance(HexColorsOf(SamplesOf(r)))
                = << <<"#", "2", "0", "2", "0", "2", "0">>, <<"#", "f", "f", "0", "0", "0", "0">>,
                     <<"#", "0", "0", "f", "f", "a", "a">>, <<"#", "a", "0", "a", "0", "a", "0">> >>
           /\ PaletteOf(r).light = <<"#", "a", "0", "a", "0", "a", "0">>

\* C10, amended: for the scenario's samples the ascending luminance ranking
\* is #202020, #ff0000, #a0a0a0, #00ffaa (luminances 0.125, 0.299, 0.627,
\* 0.663) and light is #00ffaa.
C10_ScenarioLight ==
    \A r \in Slots :
        (Resolved(r) /\ SamplesOf(r) = ScenarioSamples)
        => /\ SortByLuminance(HexColorsOf(SamplesOf(r)))
                = << <<"#", "2", "0", "2", "0", "2", "0">>, <<"#", "f", "f", "0", "0", "0", "0">>,
                     <<"#", "a", "0", "a", "0", "a", "0">>, <<"#", "0", "0", "f", "f", "a", "a">> >>
           /\ PaletteOf(r).light = <<"#", "0", "0", "f", "f", "a", "a">>

\* The scenario's samples have been derived and light is the fourth sample.
C10_Witness ==
    \E r \in Slots :
        /\ Resolved(r)
        /\ SamplesOf(r) = ScenarioSamples
        /\ PaletteOf(r).light = HexOfSample(ScenarioSamples[4])

(***************************************************************************)
(* C11..C15: the colour functions                                          *)
(***************************************************************************)
Byte(x) == x \in 0..255

Clamp(x) == Min2(255, Max2(0, x))

\* rgbToHex has returned for the call under way.
ToHexReturned == mathCall.fn = "rgbToHex" /\ mathCall.pc # "called"

\* C11, as amended: for channels in 0..255 rgbToHex returns '#' and two
\* lowercase hex digits per channel, 7 characters; it does not clamp: a
\* channel above 255 prints with its three digits, so the string is longer
\* than 7 characters, and a negative channel prints with its minus sign.
C11_ToHexOfBytes ==
    ToHexReturned =>
        LET r == mathCall.r
            g == mathCall.g
            b == mathCall.b
            out == mathCall.out
        IN  /\ (Byte(r) /\ Byte(g) /\ Byte(b))
                 => IsHex7(out) /\ out = HexOfSample(<<r, g, b>>)
            /\ (r > 255 \/ g > 255 \/ b > 255) => Len(out) > 7
            /\ (r < 0 \/ g < 0 \/ b < 0) => \E i \in DOMAIN out : out[i] = "-"

\* rgbToHex(256, 0, 0) has returned '#1000000'.
C11_Witness ==
    /\ ToHexReturned
    /\ mathCall.r = 256 /\ mathCall.g = 0 /\ mathCall.b = 0
    /\ mathCall.out = <<"#", "1", "0", "0", "0", "0", "0", "0">>

\* C11 as stated: every integer channel is clamped to 0..255 and the result
\* has exactly 7 characters.
C11_ToHexClamps ==
    ToHexReturned =>
        mathCall.out = HexOfSample(<<Clamp(mathCall.r), Clamp(mathCall.g), Clamp(mathCall.b)>>)

\* C12: a triple of channels in 0..255 written by rgbToHex and parsed back in
\* base 16 with the shifts and masks of getLuminance, or with those of
\* adjustBrightness, is the same triple.
C12_RoundTrip ==
    (/\ mathCall.fn = "rgbToHex"
     /\ mathCall.pc = "parsed"
     /\ Byte(mathCall.r) /\ Byte(mathCall.g) /\ Byte(mathCall.b))
        => /\ mathCall.chan = <<mathCall.r, mathCall.g, mathCall.b>>
           /\ mathCall.num = <<mathCall.r, mathCall.g, mathCall.b>>

\* (10, 128, 255) has been written as '#0a80ff' and read back.
C12_Witness ==
    /\ mathCall.fn = "rgbToHex"
    /\ mathCall.pc = "parsed"
    /\ mathCall.out = <<"#", "0", "a", "8", "0", "f", "f">>
    /\ mathCall.chan = <<10, 128, 255>>
    /\ mathCall.num = <<10, 128, 255>>

AdjustReturned == mathCall.fn = "adjustBrightness" /\ mathCall.pc = "returned"

\* amt is an integer nearest to 2.55 * percent.
NearestTo255Hundredths(amt, percent) ==
    /\ 100 * amt - 255 * percent <= 50
    /\ 255 * percent - 100 * amt <= 50

\* C13: adjustBrightness of a valid colour returns the colour whose channels
\* are min(255, max(0, channel + amt)) for one amt, the rounding of
\* 2.55 * percent, the same for the three channels; a positive percent
\* lowers no channel, a negative one raises none, and every channel of the
\* result is in 0..255.
C13_LinearShift ==
    AdjustReturned =>
        LET in == <<mathCall.r, mathCall.g, mathCall.b>>
            out == ChannelsOf(mathCall.out)
            p == mathCall.percent
        IN  /\ IsHex7(mathCall.out)
            /\ \E amt \in (0 - 3 * MaxPercent)..(3 * MaxPercent) :
                  /\ NearestTo255Hundredths(amt, p)
                  /\ \A i \in 1..3 : out[i] = Min2(255, Max2(0, in[i] + amt))
            /\ \A i \in 1..3 : Byte(out[i])
            /\ p > 0 => \A i \in 1..3 : out[i] >= in[i]
            /\ p < 0 => \A i \in 1..3 : out[i] <= in[i]

\* adjustBrightness('#00ffaa', 20) has returned '#33ffdd': 51 added to each
\* channel, the green one held at 255.
C13_Witness ==
    /\ AdjustReturned
    /\ mathCall.hex = <<"#", "0", "0", "f", "f", "a", "a">>
    /\ mathCall.percent = 20
    /\ mathCall.out = <<"#", "3", "3", "f", "f", "d", "d">>

\* C14: adjustBrightness(c, 0) is c for every colour c written as '#' and
\* six lowercase hex digits.
C14_ZeroIsIdentity ==
    (AdjustReturned /\ mathCall.percent = 0) => mathCall.out = mathCall.hex

\* adjustBrightness('#0a80ff', 0) has returned '#0a80ff'.
C14_Witness ==
    /\ AdjustReturned
    /\ mathCall.percent = 0
    /\ mathCall.hex = <<"#", "0", "a", "8", "0", "f", "f">>
    /\ mathCall.out = <<"#", "0", "a", "8", "0", "f", "f">>

SaturationReturned == mathCall.fn = "saturation" /\ mathCall.pc = "returned"

\* C15: the saturation (max - min) / max, 0 when max is 0, of a valid colour
\* is a number from 0 to 1; it is 0 for #808080 and for #000000 and 1 for
\* #ff0000.
C15_SaturationRange ==
    SaturationReturned =>
        LET num == mathCall.sat[1]
            den == mathCall.sat[2]
        IN  /\ den > 0 /\ 0 <= num /\ num <= den
            /\ mathCall.hex = <<"#", "8", "0", "8", "0", "8", "0">> => num = 0
            /\ mathCall.hex = <<"#", "0", "0", "0", "0", "0", "0">> => num = 0
            /\ mathCall.hex = <<"#", "f", "f", "0", "0", "0", "0">> => num = den

\* The saturations of #808080, #000000 and #ff0000 are among the values
\* returned; this is the state after that of #000000.
C15_Witness ==
    /\ SaturationReturned
    /\ mathCall.hex = <<"#", "0", "0", "0", "0", "0", "0">>
    /\ mathCall.sat = <<0, 1>>

(***************************************************************************)
(* C16: the palette edited by hand                                         *)
(***************************************************************************)
PaletteComplete == DOMAIN colors = Roles /\ \A k \in Roles : IsHex7(colors[k])

\* A step that changes the palette and shows no toast is a manual edit (the
\* extraction and the preset both show one): it gives one role a picked
\* colour, leaves the other roles alone and neither starts nor settles an
\* extraction.
ManualEditStep ==
    (colors' # colors /\ toasts' = toasts)
        => /\ \E k \in Roles :
                /\ colors'[k] \in PickedColors
                /\ \A j \in Roles \ {k} : colors'[j] = colors[j]
           /\ tasks' = tasks
           /\ isLoading' = isLoading
           /\ referenceImages' = referenceImages
           /\ styleVariant' = styleVariant

\* A step that changes the palette and shows a toast sets the whole palette:
\* to the preset of the style just chosen, or to the value an extraction
\* resolved with in this step.
WholePaletteStep ==
    (colors' # colors /\ toasts' # toasts)
        => \/ tasks' = tasks /\ colors' = StylePresets[styleVariant']
           \/ \E r \in Slots :
                /\ tasks[r].pc = "loading"
                /\ tasks'[r].pc = "resolved"
                /\ colors' = tasks'[r].value[1]

\* C16: handleColorChange(k, v) sets role k to v and leaves the other four
\* roles as they were, with no extraction run; a successful extraction and
\* a style preset replace the five roles at once; the editor always holds
\* one complete palette.
C16_PaletteEdits ==
    /\ []PaletteComplete
    /\ [][ManualEditStep /\ WholePaletteStep]_vars

\* The palette extracted from the uploaded image with its dark role edited
\* by hand, and no extraction under way.
C16_Witness ==
    /\ colors = [DerivePalette(ScenarioSamples) EXCEPT !.dark = Hex("1","2","a","b","e","f")]
    /\ colors.dark # DerivePalette(ScenarioSamples).dark
    /\ \A r \in Slots : ~InFlight(tasks[r])
    /\ ~isLoading

(***************************************************************************)
(* C17: the promise of extractColors                                       *)
(***************************************************************************)
\* The outcome of a settled call: an image that does not decode rejects
\* with the load error and no palette was derived; one that decodes went on
\* to the sampling, which resolves with the derived palette or rejects for
\* want of colours.
OutcomeOf(r) ==
    IF ~tasks[r].img.decodes
    THEN /\ tasks[r].pc = "rejected"
         /\ tasks[r].error = "Failed to load image"
         /\ tasks[r].value = <<>>
    ELSE \/ /\ tasks[r].pc = "resolved"
            /\ tasks[r].value = <<DerivePalette(tasks[r].img.thief.list)>>
         \/ /\ tasks[r].pc = "rejected"
            /\ tasks[r].error = "Could not extract enough colors"
            /\ tasks[r].value = <<>>

\* The only step of a pending call is the one that settles it, and a settled
\* call does not change again.
SettlesOnceStep ==
    \A r \in Slots :
        /\ (tasks[r].pc = "loading" /\ tasks'[r] # tasks[r])
              => tasks'[r].pc \in {"resolved", "rejected"}
        /\ Settled(r) => tasks'[r] = tasks[r]

\* C17: a call of extractColors loads the image once and settles once: it
\* rejects without sampling when the load fails and goes on to sample and
\* derive when it succeeds; the load reporting in the end, the call settles
\* in the end, and never a second time.
C17_SettlesOnce ==
    /\ [](\A r \in Slots : Settled(r) => OutcomeOf(r))
    /\ [][SettlesOnceStep]_vars
    /\ \A r \in Slots : (tasks[r].pc = "loading") ~> Settled(r)

\* The call on the image that does not decode has rejected.
C17_Witness ==
    /\ tasks[1].img = BrokenImage
    /\ tasks[1].pc = "rejected"
    /\ tasks[1].error = "Failed to load image"
    /\ lastSettled = 1
    /\ colors = Cinematic

(***************************************************************************)
(* C18: the image list                                                     *)
(***************************************************************************)
\* C18: whatever uploads (their reads overlapping or not), removals and
\* resets have happened since the empty list, referenceImages holds at most
\* 4 images.
C18_AtMostFourImages == Len(referenceImages) <= 4

\* Four images in the list while the read of another upload, started when
\* the list had three, is still under way.
C18_Witness ==
    /\ Len(referenceImages) = 4
    /\ \E r \in Slots : tasks[r].pc = "reading" /\ Len(tasks[r].base) = 3

(***************************************************************************)
(* C19: the blocks reordered by drag and drop                              *)
(***************************************************************************)
\* The position, from 1, of the block with the id.
PosOf(s, id) == CHOOSE k \in DOMAIN s : s[k].id = id

\* The list without the block with the id.
Without(s, id) == SelectSeq(s, LAMBDA b : b.id # id)

\* The drop of the dragged block on the block t: the new list is a
\* permutation of the old one, the dragged block is where t was, and the
\* other blocks are in the order they were in.
DropPost(t) ==
    /\ Len(blocks') = Len(blocks)
    /\ {blocks'[i] : i \in DOMAIN blocks'} = {blocks[i] : i \in DOMAIN blocks}
    /\ Cardinality({blocks'[i].id : i \in DOMAIN blocks'}) = Len(blocks')
    /\ blocks'[PosOf(blocks, t)].id = draggedBlock
    /\ Without(blocks', draggedBlock) = Without(blocks, draggedBlock)

DropStep == \A t \in DragIds : HandleDrop(t) => DropPost(t)

\* The list with the blocks at i and i + 1 exchanged.
Exchanged(s, i) ==
    [k \in DOMAIN s |-> IF k = i THEN s[i + 1] ELSE IF k = i + 1 THEN s[i] ELSE s[k]]

\* Any two neighbours of the list are exchanged by one drop.
NeighboursExchangeable ==
    \A i \in 1..(Len(blocks) - 1) :
        \E d \in DOMAIN blocks, t \in DOMAIN blocks :
            /\ d # t
            /\ Dropped(blocks, blocks[d].id, blocks[t].id) = Exchanged(blocks, i)

\* C19: the dragged block d dropped on another block t gives a permutation
\* of the list with d at the index t had and the other blocks in their
\* order; every exchange of neighbours is one drop, so that repeated drops
\* reach any order.
C19_DropReorders ==
    /\ [][DropStep]_vars
    /\ []NeighboursExchangeable

\* The first four blocks in the reverse of their order, no drag under way.
C19_Witness ==
    /\ [i \in 1..4 |-> blocks[i].id] = <<"4", "3", "2", "1">>
    /\ [i \in 5..10 |-> blocks[i].id] = [i \in 5..10 |-> BlockIds[i]]
    /\ draggedBlock = NoBlock

(***************************************************************************)
(* C20: the session saved                                                  *)
(***************************************************************************)
\* A timer of the auto-save effect fires.
FireStep == Len(saveTimers') < Len(saveTimers)

\* The timer that fires is the only one pending and holds the current
\* values of the four fields; it writes them and clears the flag, or, when
\* setItem throws, leaves the stored session and the flag as they are.
SaveStep ==
    FireStep =>
        /\ saveTimers = <<Session>>
        /\ IF storageFull
           THEN UNCHANGED <<storage, hasUnsavedChanges>>
           ELSE storage' = <<Session'>> /\ ~hasUnsavedChanges'

\* The stored session equals the current values and nothing is unsaved.
Saved == storage = <<Session>> /\ ~hasUnsavedChanges

C21_FallbackNeverTaken ==
    \A r \in Slots :
        Resolved(r)
        => /\ Len(SamplesOf(r)) >= 3
           /\ ~SecondFalsy(HexColorsOf(SamplesOf(r)))
           /\ PaletteOf(r).secondary = HexColorsOf(SamplesOf(r))[2]

\* A derivation on exactly 3 samples whose second sample is not what the
\* fallback would have given.
C21_Witness ==
    \E r \in Slots :
        /\ Resolved(r)
        /\ Len(SamplesOf(r)) = 3
        /\ PaletteOf(r).secondary = HexColorsOf(SamplesOf(r))[2]
        /\ PaletteOf(r).secondary # AdjustBrightness(PaletteOf(r).primary, 20)

(***************************************************************************)
(* C22: the uploads refused                                                *)
(***************************************************************************)
\* 4 images are present, the file is not of an image type, or it is larger
\* than 10 * 1024 * 1024 bytes.
MustRefuse(file) ==
    \/ Len(referenceImages) >= 4
    \/ ~file.isImage
    \/ file.size > 10485760

\* No read is started, the four fields are as before and one error toast is
\* added.
RefusedPost ==
    /\ UNCHANGED <<referenceImages, activeImageIndex, colors, isLoading, tasks>>
    /\ Len(toasts') = Len(toasts) + 1
    /\ toasts'[Len(toasts')].type = "error"
    /\ \A k \in DOMAIN toasts : toasts'[k] = toasts[k]

RefusedStep ==
    \A file \in UploadFiles :
        HandleImageUpload(file) /\ MustRefuse(file) => RefusedPost

\* C22: handleImageUpload with no file changes nothing; with 4 images
\* present, a file that is not an image or a file over 10 MB it starts no
\* read, leaves referenceImages, activeImageIndex, colors and isLoading as
\* they are and adds an error toast.
C22_RefusedUploads ==
    /\ [][HandleImageUploadNoFile => UNCHANGED vars]_vars
    /\ [][RefusedStep]_vars

\* The fifth upload refused: four images, nothing being read, the toast of
\* the first check.
C22_Witness ==
    /\ Len(referenceImages) = 4
    /\ \A r \in Slots : tasks[r].pc = "free"
    /\ ~isLoading
    /\ toasts = <<Toast("Maximum 4 images allowed", "error")>>

(***************************************************************************)
(* C23: exportToPDF                                                        *)
(***************************************************************************)
\* A call of exportToPDF is under way.
ExportingPDF == exportTask.pc # "idle" /\ exportTask.kind = "pdf"

\* A call of exportToPDF ends.
PDFEndStep == ExportingPDF /\ exportTask'.pc = "idle"

\* After the end isExporting is false and previewMode is what it was when
\* the export was invoked.
PDFEndPost == ~isExporting' /\ previewMode' = exportTask.previousMode

\* While the export runs isExporting is true.
ExportingWhileRunning == ExportingPDF => isExporting

\* Every end of exportToPDF, with or without a throw, restores the mode.
EndRestores == [][PDFEndStep => PDFEndPost]_vars

\* C23, as stated: after exportToPDF finishes, thrown or not, isExporting
\* is false and previewMode is the value it had at the call; while the export
\* runs previewMode is 'pdf' and isExporting is true; with no preview element
\* the call changes nothing.
C23_ExportAsStated ==
    /\ [](ExportingPDF => previewMode = "pdf" /\ isExporting)
    /\ [][PDFEndStep => PDFEndPost]_vars
    /\ [][ExportToPDFAbsent => UNCHANGED vars]_vars

\* The HTML button pressed while the PDF is generated.
C23_ToggledWhileExporting == ExportingPDF /\ isExporting /\ previewMode = "html"

(***************************************************************************)
(* C24: the session restored                                               *)
(***************************************************************************)
\* What saveState writes has the four fields; the old format has a single
\* referenceImage in place of the list.
AutoSaved(state) == DOMAIN state = {"blocks", "colors", "styleVariant", "referenceImages"}

Legacy(state) == "referenceImage" \in DOMAIN state /\ "referenceImages" \notin DOMAIN state

\* The useState values of the four fields.
InitialSession ==
    [blocks |-> InitialBlocks, colors |-> Cinematic, styleVariant |-> "cinematic",
     referenceImages |-> <<>>]

\* The effects of the first render run with a session stored.
MountStep == ~mounted /\ mounted' /\ storage # <<>>

\* The four fields are the saved ones, the single image of the old format is
\* a list of one, and the only timer left is the one of the restored values.
MountPost ==
    /\ AutoSaved(storage[1]) => Session' = storage[1]
    /\ Legacy(storage[1])
       => /\ referenceImages' = <<storage[1].referenceImage>>
          /\ blocks' = storage[1].blocks
          /\ colors' = storage[1].colors
    /\ AutoSaved(storage[1]) \/ Legacy(storage[1]) => saveTimers' = <<Session'>>
    /\ storage' = storage

\* The useState values are written over a stored session.
InitialOverwriteStep ==
    /\ storage # <<>>
    /\ AutoSaved(storage[1]) \/ Legacy(storage[1])
    /\ storage' # storage
    /\ storage' = <<InitialSession>>

\* C24: a session auto-save wrote, loaded by the next mount, gives blocks,
\* colors, styleVariant and referenceImages their saved values, a single
\* referenceImage of the old format becomes a list of one, and the save
\* scheduled at mount with the initial state is cleared before it fires: the
\* initial values are written over a stored session only when they are the
\* current values again.
C24_SessionRestored ==
    /\ [][MountStep => MountPost]_vars
    /\ [][InitialOverwriteStep => Session = InitialSession]_vars

\* A session with the hero block hidden and the bold style, saved by one
\* page and restored by the next.
C24_Witness ==
    /\ mounted
    /\ storage # <<>>
    /\ AutoSaved(storage[1])
    /\ storage = <<Session>>
    /\ ~blocks[1].visible
    /\ styleVariant = "bold"
    /\ toasts = <<Toast("Previous session restored", "info")>>
    /\ saveTimers = <<Session>>

(***************************************************************************)
(* C25: the image of each block                                            *)
(***************************************************************************)
\* The slots as stated: one per block type, in the order of the types.
StatedSlot ==
    [hero |-> 0, logline |-> 1, story |-> 2, world |-> 3, character |-> 4,
     tone |-> 5, motif |-> 6, theme |-> 7, stakes |-> 8, closing |-> 9]

VisiblePositions == {k \in DOMAIN blocks : blocks[k].visible}

\* The i-th visible position, counted from the start of the list.
NthVisible(i) ==
    CHOOSE k \in VisiblePositions :
        Cardinality({j \in VisiblePositions : j < k}) = i - 1

\* The list holds the ten initial ids, each once.
TenIdsOnce ==
    /\ Len(blocks) = Len(BlockIds)
    /\ \A i \in DOMAIN BlockIds :
          Cardinality({k \in DOMAIN blocks : blocks[k].id = BlockIds[i]}) = 1

\* The preview shows the visible blocks and no other, in list order.
PreviewIsVisibleInOrder ==
    /\ Len(Preview) = Cardinality(VisiblePositions)
    /\ \A i \in DOMAIN Preview : Preview[i] = blocks[NthVisible(i)].id

\* C26: in every state reached through handleBlockUpdate, toggleBlockLayout,
\* toggleBlockVisibility, setAllLayouts, handleDragStart, handleDrop,
\* handleDragEnd and resetToDefaults the block list holds exactly the ten
\* initial block ids, each once, and the preview shows exactly the blocks
\* with visible = true, in list order.
C26_TenBlocksAndPreview == TenIdsOnce /\ PreviewIsVisibleInOrder

\* The second block dragged to the front, hidden, and the hero block given
\* another title: the preview starts with the hero block and lacks the hidden
\* one.
C26_Witness ==
    /\ blocks[1].id = BlockIds[2]
    /\ ~blocks[1].visible
    /\ blocks[2].id = BlockIds[1]
    /\ blocks[2].title = "UNTITLED"
    /\ blocks[3].layout = "B"
    /\ Preview[1] = BlockIds[1]
    /\ Len(Preview) = 9

(***************************************************************************)
(* C27: isLoading while extractions overlap                                *)
(***************************************************************************)
\* An extraction started by handleImageUpload or extractColorsFromImage
\* whose promise has not settled.
Extracting(r) ==
    /\ tasks[r].kind \in {"upload", "extract"}
    /\ tasks[r].pc = "loading"

\* Once every read and extraction begun has settled, isLoading is false.
AllSettledNotLoading ==
    (\A r \in Slots : ~InFlight(tasks[r])) => ~isLoading

\* C27, as stated: isLoading is true in every state in which an extraction
\* started by handleImageUpload or extractColorsFromImage has not settled,
\* two overlapping ones included, and false once all of them have settled.
C27_LoadingUntilAllSettled ==
    /\ (\E r \in Slots : Extracting(r)) => isLoading
    /\ AllSettledNotLoading

\* Two extractions overlapped and the first one settled: its finally has set
\* isLoading to false while the second is still under way.
C27_ClearedWhileExtracting ==
    /\ \E r \in Slots : Extracting(r)
    /\ \E r \in Slots : tasks[r].pc \in {"resolved", "rejected"}
    /\ ~isLoading

=============================================================================
